---- MODULE Spec2Model ----
(***************************************************************************)
(* Career-navigation agents: the feasibility evaluator, the market         *)
(* intelligence agent, the reroute agent and the progress tracker.         *)
(*                                                                         *)
(* Number conventions.  The Python code computes with binary floats; the   *)
(* model computes with scaled integers:                                    *)
(*   - ratios and factor scores in hundredths (0.65 is 65),                *)
(*   - weighted totals in thousandths (0.655 is 655) or finer, as stated   *)
(*     at the definition,                                                  *)
(*   - motivation_level in tenths (0.8 is 8).                              *)
(* Where a float comparison differs from the exact one on the modelled     *)
(* inputs, the difference is modelled explicitly (GapAbove).     *)
(***************************************************************************)
EXTENDS Integers, Sequences, FiniteSets, Bags, TLC

VARIABLES
    \* FeasibilityEvaluator.evaluate: its arguments and its return value
    fe_in, fe_out,
    \* MarketIntelligenceAgent.analyze_role_market: the agent's data and the
    \* call's arguments, and its return value
    mi_in, mi_out,
    \* RerouteAgent.find_alternatives: the agent's data and the call's
    \* arguments, and its return value
    rr_in, rr_out,
    \* RerouteAgent._calculate_role_score: likewise
    sc_in, sc_out,
    \* ProgressTracker: student_states (session_id -> state), the last call
    \* (its operation, session_id and step_number) and what it returned, and for
    \* each session and step the number of record_blocker calls made for it (a
    \* history variable)
    student_states, request, response, reported,
    \* an operation that asks the text generator: the operation, its
    \* arguments and what generate does, and what the operation returns
    llm_in, llm_out,
    \* CareerNavigationOrchestrator.process_student_query: its arguments with
    \* what the profile analyzer and the text generator do, and the calls it
    \* made to the agents with what it returned
    pq_in, pq_out,
    \* DatabaseManager.record_blocker, called by concurrent requests: the
    \* rows of the blockers table, the journey's row, the holders of the
    \* row locks of step_progress, each request's transaction, and whether
    \* the schema allows one unresolved blocker per step only
    blockers, journey, step_locks, tx, blockers_unique,
    \* the re-evaluation of the standalone app (trigger_reevaluation and
    \* trigger_reevaluation_with_analysis): its inputs, the alternatives as
    \* find_alternatives returned them (a history variable), the list of
    \* alternatives the analysis writes to, each alternative's analysis
    \* (its position and its local values), and the re-evaluation data saved
    pool_in, pool_found, pool_alts, pool_task, pool_out,
    \* the API layer (update_progress and accept_reroute of src/api/main.py)
    \* on one journey: the journey's rows in the tables journeys,
    \* step_progress, blockers, reevaluations and reroutes, and the last
    \* request with its response
    api_db, api_call

feas_vars == <<fe_in, fe_out>>
market_vars == <<mi_in, mi_out>>
reroute_vars == <<rr_in, rr_out>>
score_vars == <<sc_in, sc_out>>
tracker_vars == <<student_states, request, response, reported>>
llm_vars == <<llm_in, llm_out>>
query_vars == <<pq_in, pq_out>>
db_vars == <<blockers, journey, step_locks, tx, blockers_unique>>
pool_vars == <<pool_in, pool_found, pool_alts, pool_task, pool_out>>
api_vars == <<api_db, api_call>>
app_vars == <<llm_vars, query_vars, db_vars, pool_vars, api_vars>>
core_vars == <<feas_vars, market_vars, reroute_vars, score_vars, tracker_vars>>
vars == <<feas_vars, market_vars, reroute_vars, score_vars, tracker_vars, app_vars>>

\* a component that a specification does not exercise
NoInput == [status |-> "none"]
NoResult == [status |-> "none"]

FeasIdle == fe_in = NoInput /\ fe_out = NoResult
MarketIdle == mi_in = NoInput /\ mi_out = NoResult
RerouteIdle == rr_in = NoInput /\ rr_out = NoResult
ScoreIdle == sc_in = NoInput /\ sc_out = NoResult
TrackerIdle ==
    student_states = <<>> /\ request = NoInput /\ response = NoResult /\ reported = <<>>
LlmIdle == llm_in = NoInput /\ llm_out = NoResult
QueryIdle == pq_in = NoInput /\ pq_out = NoResult
DbIdle ==
    /\ blockers = <<>> /\ journey = NoResult /\ step_locks = <<>> /\ tx = <<>>
    /\ blockers_unique = FALSE
PoolIdle ==
    /\ pool_in = NoInput /\ pool_found = NoResult /\ pool_alts = <<>>
    /\ pool_task = <<>> /\ pool_out = NoResult
ApiIdle == api_db = NoResult /\ api_call = NoInput
AppIdle == LlmIdle /\ QueryIdle /\ DbIdle /\ PoolIdle /\ ApiIdle
CoreIdle == FeasIdle /\ MarketIdle /\ RerouteIdle /\ ScoreIdle /\ TrackerIdle

Max(a, b) == IF a >= b THEN a ELSE b
Min(a, b) == IF a <= b THEN a ELSE b

(***************************************************************************)
(* Python string operations on ASCII strings                               *)
(***************************************************************************)

UpperChars == "ABCDEFGHIJKLMNOPQRSTUVWXYZ"
LowerChars == "abcdefghijklmnopqrstuvwxyz"

Ch(s, i) == SubSeq(s, i, i)

\* position of character c in alphabet, 0 when absent
IndexIn(c, alphabet) ==
    IF \E i \in 1..Len(alphabet) : Ch(alphabet, i) = c
    THEN CHOOSE i \in 1..Len(alphabet) : Ch(alphabet, i) = c
    ELSE 0

CharLower(c) ==
    LET i == IndexIn(c, UpperChars) IN IF i > 0 THEN Ch(LowerChars, i) ELSE c

CharUpper(c) ==
    LET i == IndexIn(c, LowerChars) IN IF i > 0 THEN Ch(UpperChars, i) ELSE c

IsCased(c) == IndexIn(c, UpperChars) > 0 \/ IndexIn(c, LowerChars) > 0

\* str.lower()
RECURSIVE lower(_)
lower(s) == IF Len(s) = 0 THEN "" ELSE CharLower(Head(s)) \o lower(Tail(s))

\* str.title(): a cased character is upper-cased when it follows an uncased
\* one (or starts the string) and lower-cased otherwise
RECURSIVE TitleFrom(_, _)
TitleFrom(s, prev_cased) ==
    IF Len(s) = 0 THEN ""
    ELSE (IF prev_cased THEN CharLower(Head(s)) ELSE CharUpper(Head(s)))
         \o TitleFrom(Tail(s), IsCased(Head(s)))

title(s) == TitleFrom(s, FALSE)

\* str.strip(), for the blank " "
RECURSIVE lstrip(_)
lstrip(s) == IF Len(s) > 0 /\ Head(s) = " " THEN lstrip(Tail(s)) ELSE s

RECURSIVE rstrip(_)
rstrip(s) ==
    IF Len(s) > 0 /\ Ch(s, Len(s)) = " " THEN rstrip(SubSeq(s, 1, Len(s) - 1)) ELSE s

strip(s) == rstrip(lstrip(s))

\* the substring test "sub in s"
contains(s, sub) ==
    \E i \in 1..(Len(s) - Len(sub) + 1) : SubSeq(s, i, i + Len(sub) - 1) = sub

\* "x in list"
InSeq(x, list) == \E i \in 1..Len(list) : list[i] = x

(***************************************************************************)
(* MarketIntelligenceAgent (src/agents/market_intelligence.py)             *)
(*                                                                         *)
(* A catalog (job_market_data["roles"]) is a sequence of role records in   *)
(* the dict's iteration order, with distinct names:                        *)
(*   [name, total_jobs, trend, growth_rate_yoy, entry_barrier (hundredths),*)
(*    must_have (sequence of skill names)]                                 *)
(* A taxonomy (skills_taxonomy["skills"]) is a sequence of                 *)
(*   [canonical_name, aliases (sequence of names)]                         *)
(***************************************************************************)

\* the loop of _normalize_skill over the taxonomy, from entry i on
RECURSIVE NormalizeFrom(_, _, _, _)
NormalizeFrom(skill_lower, taxonomy, i, default) ==
    IF i > Len(taxonomy) THEN default
    ELSE IF skill_lower = lower(taxonomy[i].canonical_name)
        THEN taxonomy[i].canonical_name
    ELSE IF \E a \in 1..Len(taxonomy[i].aliases) :
                skill_lower = lower(taxonomy[i].aliases[a])
        THEN taxonomy[i].canonical_name
    ELSE NormalizeFrom(skill_lower, taxonomy, i + 1, default)

\* _normalize_skill
normalize_skill(skill, taxonomy) ==
    NormalizeFrom(strip(lower(skill)), taxonomy, 1, title(skill))

\* MarketIntelligenceAgent._skills_match
skills_match(skill1, skill2, taxonomy) ==
    LET s1 == strip(lower(skill1))
        s2 == strip(lower(skill2))
    IN  \/ s1 = s2
        \/ contains(s2, s1) \/ contains(s1, s2)
        \/ lower(normalize_skill(skill1, taxonomy)) = lower(normalize_skill(skill2, taxonomy))

\* round(k / n, 2) in hundredths, for n > 0.  k/n is an exact tie only when
\* n is a multiple of 8, above the list lengths modelled here.
RoundRatio2(k, n) == (200 * k + n) \div (2 * n)

\* _analyze_skill_gap
analyze_skill_gap(role_data, student_skills, taxonomy) ==
    LET must_have_skills == role_data.must_have
        normalized_student_skills ==
            [i \in 1..Len(student_skills) |-> normalize_skill(student_skills[i], taxonomy)]
        normalized_required ==
            [i \in 1..Len(must_have_skills) |-> normalize_skill(must_have_skills[i], taxonomy)]
        Matched(req_skill) ==
            \E i \in 1..Len(normalized_student_skills) :
                skills_match(req_skill, normalized_student_skills[i], taxonomy)
        matched_skills == SelectSeq(normalized_required, Matched)
        NotMatched(s) == ~InSeq(s, matched_skills)
        missing_skills == SelectSeq(must_have_skills, NotMatched)
    IN  [skill_match |-> IF Len(must_have_skills) > 0
                            THEN RoundRatio2(Len(matched_skills), Len(must_have_skills))
                            ELSE 0,
         matched_skills |-> matched_skills,
         missing_skills |-> missing_skills,
         missing_skills_count |-> Len(missing_skills)]

\* _get_role_data: the index of the role in the catalog, 0 for None
get_role_data(catalog, role_name) ==
    LET Exact(i) == catalog[i].name = role_name
        NoCase(i) == lower(catalog[i].name) = lower(role_name)
        Partial(i) == \/ contains(lower(catalog[i].name), lower(role_name))
                      \/ contains(lower(role_name), lower(catalog[i].name))
        First(P(_)) == CHOOSE i \in 1..Len(catalog) :
                          P(i) /\ \A j \in 1..(i - 1) : ~P(j)
    IN  IF \E i \in 1..Len(catalog) : Exact(i) THEN First(Exact)
        ELSE IF \E i \in 1..Len(catalog) : NoCase(i) THEN First(NoCase)
        ELSE IF \E i \in 1..Len(catalog) : Partial(i) THEN First(Partial)
        ELSE 0

\* a demand score whose base score is rounded to the nearest point
calculate_demand_score_rounded(job_count, trend, growth_rate) ==
    LET base_score == Min((job_count * 60 + 2500) \div 5000, 60)
        trend_score == IF trend = "growing" THEN 25
                       ELSE IF trend = "stable" THEN 15
                       ELSE IF trend = "declining" THEN 5
                       ELSE 10
        growth_score == IF growth_rate >= 20 THEN 15
                        ELSE IF growth_rate >= 10 THEN 10
                        ELSE IF growth_rate >= 0 THEN 5
                        ELSE 0
    IN  Min(base_score + trend_score + growth_score, 100)

\* _calculate_demand_score (0-100); growth_rate in percent
calculate_demand_score(job_count, trend, growth_rate) ==
    LET base_score == Min((job_count * 60) \div 5000, 60)
        trend_score == CASE trend = "growing" -> 25
                         [] trend = "stable" -> 15
                         [] trend = "declining" -> 5
                         [] trend = "unknown" -> 10
                         [] OTHER -> 10
        growth_score == IF growth_rate >= 20 THEN 15
                        ELSE IF growth_rate >= 10 THEN 10
                        ELSE IF growth_rate >= 0 THEN 5
                        ELSE 0
    IN  Min(base_score + trend_score + growth_score, 100)

\* _analyze_competition: the barrier label
barrier_label(entry_barrier) ==
    IF entry_barrier >= 80 THEN "very_high"
    ELSE IF entry_barrier >= 60 THEN "high"
    ELSE IF entry_barrier >= 40 THEN "medium"
    ELSE "low"

\* analyze_role_market (the salary strings and the time-to-job string, which
\* nothing reads back, are left out of the record)
analyze_role_market(catalog, taxonomy, role_name, student_skills) ==
    LET r == get_role_data(catalog, role_name) IN
    IF r = 0 THEN
        [status |-> "error",
         available_roles |-> [i \in 1..Len(catalog) |-> catalog[i].name]]
    ELSE
        LET role_data == catalog[r]
            gap == analyze_skill_gap(role_data, student_skills, taxonomy)
        IN  [status |-> "ok",
             role |-> role_name,
             resolved_role |-> role_data.name,
             demand_score |-> calculate_demand_score(role_data.total_jobs,
                                  role_data.trend, role_data.growth_rate_yoy),
             active_jobs |-> role_data.total_jobs,
             trend |-> role_data.trend,
             growth_rate |-> role_data.growth_rate_yoy,
             entry_barrier |-> role_data.entry_barrier,
             entry_barrier_label |-> barrier_label(role_data.entry_barrier),
             required_skills |-> role_data.must_have,
             skill_match |-> gap.skill_match,
             matched_skills |-> gap.matched_skills,
             missing_skills |-> gap.missing_skills,
             missing_skills_count |-> gap.missing_skills_count]

\* get_roles_for_skills, before its sort: the roles with skill_match >= min_match
\* (min_match in hundredths), in catalog order
roles_matching(catalog, taxonomy, student_skills, min_match) ==
    LET Keep(role_data) ==
            analyze_skill_gap(role_data, student_skills, taxonomy).skill_match >= min_match
    IN  SelectSeq(catalog, Keep)

\* ---- inputs of analyze_role_market ----
MaxMustHave == 2
MaxStudentSkills == 2
SkillNames == {"Python", "py", "SQL", "sql", "Java", "JavaScript"}

\* sequences over S of length at most n
SeqsUpTo(S, n) == UNION {[1..k -> S] : k \in 0..n}

Taxonomies ==
    { <<>>,
      << [canonical_name |-> "Python", aliases |-> <<"py", "python3">>],
         [canonical_name |-> "SQL", aliases |-> <<"mysql", "structured query language">>],
         [canonical_name |-> "JavaScript", aliases |-> <<"js">>] >> }

MarketRoleNames == {"Data Analyst", "data analyst", "Analyst", "Chef"}

\* the one-role catalog whose role requires must_have
MarketCatalog(must_have) ==
    << [name |-> "Data Analyst", total_jobs |-> 4500, trend |-> "growing",
        growth_rate_yoy |-> 15, entry_barrier |-> 30, must_have |-> must_have] >>

MarketInit ==
    /\ mi_in \in [catalog : {MarketCatalog(m) : m \in SeqsUpTo(SkillNames, MaxMustHave)},
                  taxonomy : Taxonomies,
                  role_name : MarketRoleNames,
                  student_skills : SeqsUpTo(SkillNames, MaxStudentSkills)]
    /\ mi_out = NoResult
    /\ FeasIdle /\ RerouteIdle /\ ScoreIdle /\ TrackerIdle /\ AppIdle

AnalyzeRoleMarket ==
    /\ mi_out = NoResult
    /\ mi_out' = analyze_role_market(mi_in.catalog, mi_in.taxonomy,
                                     mi_in.role_name, mi_in.student_skills)
    /\ UNCHANGED <<mi_in, feas_vars, reroute_vars, score_vars, tracker_vars, app_vars>>

MarketNext == AnalyzeRoleMarket

SpecMarket == MarketInit /\ [][MarketNext]_vars

\* the role that the call of mi_in resolved
MarketRole == mi_in.catalog[get_role_data(mi_in.catalog, mi_in.role_name)]

\* every must_have name of the role is in student_skills verbatim
HasEveryMustHave ==
    \A i \in 1..Len(MarketRole.must_have) :
        InSeq(MarketRole.must_have[i], mi_in.student_skills)

\* C10: if student_skills contains every must_have skill name of the role
\* verbatim, then skill_match = 1.0, missing_skills = [] and
\* missing_skills_count = 0, also when normalization changes a must_have
\* name.  Stated for roles with at least one must_have skill (with none the
\* code returns skill_match 0.0 by definition).
C10_VerbatimSkillsMatchFully ==
    (mi_out.status = "ok" /\ MarketRole.must_have # <<>> /\ HasEveryMustHave) =>
        /\ mi_out.skill_match = 100
        /\ mi_out.missing_skills = <<>>
        /\ mi_out.missing_skills_count = 0

(***************************************************************************)
(* RerouteAgent (src/agents/reroute_agent.py)                              *)
(*                                                                         *)
(* The four criteria of a role's score are exact fractions of CompScale    *)
(* (CompScale is 1.0), the weighted total an exact fraction of TotalScale. *)
(* Career paths (career_paths_data) are                                    *)
(*   [stepping_stones : sequence of [target, stones : sequence of          *)
(*                          [intermediate_role, recommended]],             *)
(*    career_graph : sequence of [role, typical_next_roles : sequence of   *)
(*                          [role, transition_probability (hundredths)]]]  *)
(* A profile is [technical_skills : the skill names of all categories in   *)
(* the dict's order, experience_level].                                    *)
(***************************************************************************)

CompScale == 12 * 1000000
TotalScale == 100 * CompScale

\* round(x / scale, 3) in thousandths, where no exact tie can occur
RoundNearest3(x, scale) == (2 * x + (scale \div 1000)) \div (2 * (scale \div 1000))

\* round(x / scale, 3) in thousandths.  An exact tie (x.xxx5) is decided by
\* the binary value of the float, which lies on either side of the tie.
round3(x, scale) ==
    LET unit == scale \div 1000
        low == x \div unit
        rest == x % unit
    IN  IF 2 * rest = unit THEN {low, low + 1}
        ELSE IF 2 * rest < unit THEN {low}
        ELSE {low + 1}

\* RerouteAgent._normalize_skill
rr_normalize_skill(skill, taxonomy) ==
    NormalizeFrom(strip(lower(skill)), taxonomy, 1, title(skill))

\* RerouteAgent._skills_match
rr_skills_match(skill1, skill2) ==
    LET s1 == lower(skill1)
        s2 == lower(skill2)
    IN  s1 = s2 \/ contains(s2, s1) \/ contains(s1, s2)

\* _calculate_skill_overlap, as a fraction of CompScale
calculate_skill_overlap(student_skills, must_have, taxonomy) ==
    LET student_normalized ==
            [i \in 1..Len(student_skills) |-> rr_normalize_skill(student_skills[i], taxonomy)]
        required_normalized ==
            [i \in 1..Len(must_have) |-> rr_normalize_skill(must_have[i], taxonomy)]
        Matches(req_skill) ==
            \E i \in 1..Len(student_normalized) :
                rr_skills_match(req_skill, student_normalized[i])
        matches == Len(SelectSeq(required_normalized, Matches))
    IN  IF must_have = <<>> THEN 0
        ELSE (matches * CompScale) \div Len(must_have)

\* _calculate_market_demand_score, as a fraction of CompScale
calculate_market_demand_score(job_count, trend, growth_rate) ==
    LET base == Min(job_count * (CompScale \div 5000), CompScale)
        multiplier == CASE trend = "growing" -> 12
                        [] trend = "stable" -> 10
                        [] trend = "declining" -> 8
                        [] OTHER -> 10
        growth_bonus == Min(growth_rate * (CompScale \div 100), CompScale \div 5)
    IN  Min((base * multiplier) \div 10 + growth_bonus, CompScale)

\* the set of a list of names
NameSet(names) == {names[i] : i \in 1..Len(names)}

\* dict lookup by exact key, given the keys in the dict's order: the index,
\* 0 when absent
KeyIndex(keys, k) ==
    IF \E i \in 1..Len(keys) : keys[i] = k
    THEN CHOOSE i \in 1..Len(keys) : keys[i] = k
    ELSE 0

\* _calculate_progression_potential, as a fraction of CompScale
calculate_progression_potential(alternative_role, original_role, career_paths, catalog) ==
    LET targets == [i \in 1..Len(career_paths.stepping_stones) |->
                        career_paths.stepping_stones[i].target]
        roles == [i \in 1..Len(career_paths.career_graph) |->
                      career_paths.career_graph[i].role]
        names == [i \in 1..Len(catalog) |-> catalog[i].name]
        st == KeyIndex(targets, original_role)
        stones == IF st = 0 THEN <<>> ELSE career_paths.stepping_stones[st].stones
        IsStone(i) == lower(stones[i].intermediate_role) = lower(alternative_role)
        cg == KeyIndex(roles, alternative_role)
        next_roles == IF cg = 0 THEN <<>>
                      ELSE career_paths.career_graph[cg].typical_next_roles
        IsNext(i) == lower(next_roles[i].role) = lower(original_role)
        alt == KeyIndex(names, alternative_role)
        orig == KeyIndex(names, original_role)
    IN  IF \E i \in 1..Len(stones) : IsStone(i) THEN
            LET i == CHOOSE i \in 1..Len(stones) :
                        IsStone(i) /\ \A j \in 1..(i - 1) : ~IsStone(j)
            IN  IF stones[i].recommended THEN (9 * CompScale) \div 10
                ELSE (7 * CompScale) \div 10
        ELSE IF \E i \in 1..Len(next_roles) : IsNext(i) THEN
            LET i == CHOOSE i \in 1..Len(next_roles) :
                        IsNext(i) /\ \A j \in 1..(i - 1) : ~IsNext(j)
            IN  next_roles[i].transition_probability * (CompScale \div 100)
        ELSE IF /\ alt # 0 /\ orig # 0
                /\ catalog[alt].must_have # <<>> /\ catalog[orig].must_have # <<>>
        THEN
            LET alt_skills == NameSet(catalog[alt].must_have)
                orig_skills == NameSet(catalog[orig].must_have)
            IN  (Cardinality(alt_skills \cap orig_skills) * 6 * (CompScale \div 10))
                    \div Cardinality(orig_skills)
        ELSE (3 * CompScale) \div 10

\* experience_map.get(experience_level, 0.2), in hundredths
experience_map(experience_level) ==
    CASE experience_level = "beginner" -> 20
      [] experience_level = "intermediate" -> 50
      [] experience_level = "advanced" -> 90
      [] OTHER -> 20

\* RerouteAgent._calculate_barrier_score, as a fraction of CompScale;
\* entry_barrier in hundredths
rr_calculate_barrier_score(entry_barrier, experience_level) ==
    LET student_level == experience_map(experience_level) IN
    IF entry_barrier <= student_level THEN CompScale
    ELSE Max(CompScale - (entry_barrier - student_level) * 15 * (CompScale \div 1000), 0)

\* the weighted total of _calculate_role_score, as a fraction of TotalScale
weighted_total(skill_overlap, market_score, progression_score, barrier_score) ==
    35 * skill_overlap + 30 * market_score + 20 * progression_score + 15 * barrier_score

\* _calculate_role_score: the breakdowns it can return, in thousandths
calculate_role_score(role_data, student_skills, failed_role, student_profile, catalog, career_paths, taxonomy) ==
    LET skill_overlap ==
            calculate_skill_overlap(student_skills, role_data.must_have, taxonomy)
        market_score ==
            calculate_market_demand_score(role_data.total_jobs, role_data.trend,
                                          role_data.growth_rate_yoy)
        progression_score ==
            calculate_progression_potential(role_data.name, failed_role,
                                            career_paths, catalog)
        barrier_score ==
            rr_calculate_barrier_score(role_data.entry_barrier,
                                       student_profile.experience_level)
        total_score ==
            weighted_total(skill_overlap, market_score, progression_score, barrier_score)
    IN  { [total_score |-> t,
           skill_overlap |-> RoundNearest3(skill_overlap, CompScale),
           market_demand |-> RoundNearest3(market_score, CompScale),
           progression_potential |-> RoundNearest3(progression_score, CompScale),
           ease_of_entry |-> RoundNearest3(barrier_score, CompScale)]
          : t \in round3(total_score, TotalScale) }

\* _get_market_summary (without the salary string)
get_market_summary(role_data) ==
    [total_jobs |-> role_data.total_jobs,
     trend |-> role_data.trend,
     growth_rate |-> role_data.growth_rate_yoy,
     entry_barrier |-> role_data.entry_barrier]

\* the skip test with the names compared as they are
is_failed_role_exact(role_name, failed_role) == role_name = failed_role

\* the test of _score_all_roles that skips the failed role
is_failed_role(role_name, failed_role) == lower(role_name) = lower(failed_role)

\* the loop of _score_all_roles from catalog entry i on: the lists of scored
\* roles it can build, in catalog order
RECURSIVE ScoreRolesFrom(_, _, _, _, _, _, _)
ScoreRolesFrom(i, student_skills, failed_role, student_profile, catalog, career_paths, taxonomy) ==
    IF i > Len(catalog) THEN {<<>>}
    ELSE LET rest == ScoreRolesFrom(i + 1, student_skills, failed_role,
                                    student_profile, catalog, career_paths, taxonomy)
         IN  IF is_failed_role(catalog[i].name, failed_role) THEN rest
             ELSE { <<[role |-> catalog[i].name,
                       total_score |-> b.total_score,
                       breakdown |-> b,
                       market_analysis |-> get_market_summary(catalog[i])]>> \o r
                    : b \in calculate_role_score(catalog[i], student_skills,
                                failed_role, student_profile,
                                catalog, career_paths, taxonomy),
                      r \in rest }

\* a sort that puts an element before the elements of its own score
RECURSIVE SortByScoreTiesReversed(_)
SortByScoreTiesReversed(list) ==
    IF list = <<>> THEN <<>>
    ELSE LET sorted == SortByScoreTiesReversed(SubSeq(list, 1, Len(list) - 1))
             x == list[Len(list)]
             k == Cardinality({i \in 1..Len(sorted) :
                                 sorted[i].total_score > x.total_score})
         IN  SubSeq(sorted, 1, k) \o <<x>> \o SubSeq(sorted, k + 1, Len(sorted))

\* list.sort(key = total_score, reverse = True): stable, equal scores keep
\* their order
RECURSIVE SortByScore(_)
SortByScore(list) ==
    IF list = <<>> THEN <<>>
    ELSE LET sorted == SortByScore(SubSeq(list, 1, Len(list) - 1))
             x == list[Len(list)]
             \* x goes behind every element that does not score less
             k == Cardinality({i \in 1..Len(sorted) :
                                 sorted[i].total_score >= x.total_score})
         IN  SubSeq(sorted, 1, k) \o <<x>> \o SubSeq(sorted, k + 1, Len(sorted))

\* _score_all_roles: the sorted lists it can return
score_all_roles(student_skills, failed_role, student_profile, catalog, career_paths, taxonomy) ==
    { SortByScore(l) : l \in ScoreRolesFrom(1, student_skills, failed_role,
                                student_profile, catalog, career_paths, taxonomy) }

\* _extract_student_skills
extract_student_skills(student_profile) == student_profile.technical_skills

\* find_alternatives: the results it can return (the justification text of
\* each alternative is not modelled)
find_alternatives(student_profile, failed_role, top_n, catalog, career_paths, taxonomy) ==
    { [original_role |-> failed_role,
       alternatives |-> SubSeq(scored, 1, Min(top_n, Len(scored))),
       total_alternatives_evaluated |-> Len(scored)]
      : scored \in score_all_roles(extract_student_skills(student_profile),
                        failed_role, student_profile,
                        catalog, career_paths, taxonomy) }

\* ---- inputs of find_alternatives ----
MaxRoles == 3
MaxTopN == 3

StandardTaxonomy ==
    << [canonical_name |-> "Python", aliases |-> <<"py", "python3">>],
       [canonical_name |-> "SQL", aliases |-> <<"mysql", "structured query language">>],
       [canonical_name |-> "JavaScript", aliases |-> <<"js">>] >>

RolePool ==
    { [name |-> "Data Analyst", total_jobs |-> 4500, trend |-> "growing",
       growth_rate_yoy |-> 15, entry_barrier |-> 30, must_have |-> <<"SQL", "Excel">>],
      [name |-> "data analyst", total_jobs |-> 25, trend |-> "stable",
       growth_rate_yoy |-> 0, entry_barrier |-> 20, must_have |-> <<"SQL">>],
      [name |-> "Data Scientist", total_jobs |-> 3000, trend |-> "growing",
       growth_rate_yoy |-> 25, entry_barrier |-> 70,
       must_have |-> <<"Python", "SQL", "Machine Learning">>],
      [name |-> "DATA SCIENTIST", total_jobs |-> 3000, trend |-> "growing",
       growth_rate_yoy |-> 25, entry_barrier |-> 70, must_have |-> <<>>],
      [name |-> "BI Developer", total_jobs |-> 1200, trend |-> "declining",
       growth_rate_yoy |-> -5, entry_barrier |-> 40, must_have |-> <<"SQL", "Power BI">>] }

\* the catalogs of at most n roles of the pool, in any order
Catalogs(n) ==
    {c \in SeqsUpTo(RolePool, n) :
        \A i, j \in 1..Len(c) : i # j => c[i].name # c[j].name}

NoCareerPaths == [stepping_stones |-> <<>>, career_graph |-> <<>>]

SomeCareerPaths ==
    [stepping_stones |->
        << [target |-> "Data Scientist",
            stones |-> << [intermediate_role |-> "data analyst", recommended |-> TRUE],
                          [intermediate_role |-> "BI Developer", recommended |-> FALSE] >>] >>,
     career_graph |->
        << [role |-> "BI Developer",
            typical_next_roles |->
                << [role |-> "Data Analyst", transition_probability |-> 60] >>] >>]

FailedRoles == {"Data Analyst", "data scientist", "Analyst", "Chef"}

Profiles ==
    { [technical_skills |-> <<"sql", "Python">>, experience_level |-> "beginner"],
      [technical_skills |-> <<>>, experience_level |-> "advanced"] }

RerouteInit ==
    /\ rr_in \in [catalog : Catalogs(MaxRoles),
                  career_paths : {NoCareerPaths, SomeCareerPaths},
                  student_profile : Profiles,
                  failed_role : FailedRoles,
                  top_n : 1..MaxTopN]
    /\ rr_out = NoResult
    /\ FeasIdle /\ MarketIdle /\ ScoreIdle /\ TrackerIdle /\ AppIdle

FindAlternatives ==
    /\ rr_out = NoResult
    /\ \E r \in find_alternatives(rr_in.student_profile, rr_in.failed_role, rr_in.top_n,
                                  rr_in.catalog, rr_in.career_paths, StandardTaxonomy) :
          rr_out' = [status |-> "found", reroute_recommendations |-> r]
    /\ UNCHANGED <<rr_in, feas_vars, market_vars, score_vars, tracker_vars, app_vars>>

RerouteNext == FindAlternatives

SpecReroute == RerouteInit /\ [][RerouteNext]_vars

\* the catalog positions whose role name is not failed_role in any casing
OtherRoles(catalog, failed_role) ==
    {i \in 1..Len(catalog) : lower(catalog[i].name) # lower(failed_role)}

\* C8: find_alternatives never returns a candidate whose role name equals
\* failed_role case-insensitively, and total_alternatives_evaluated counts
\* only the roles other than failed_role.
C8_FailedRoleExcluded ==
    rr_out.status = "found" =>
        LET r == rr_out.reroute_recommendations IN
        /\ \A i \in 1..Len(r.alternatives) :
              lower(r.alternatives[i].role) # lower(rr_in.failed_role)
        /\ r.total_alternatives_evaluated =
              Cardinality(OtherRoles(rr_in.catalog, rr_in.failed_role))

\* a catalog that holds the failed role under another casing, and a result
\* with alternatives
C8_Witness ==
    /\ rr_out.status = "found"
    /\ \E i \in 1..Len(rr_in.catalog) :
          /\ rr_in.catalog[i].name # rr_in.failed_role
          /\ lower(rr_in.catalog[i].name) = lower(rr_in.failed_role)
    /\ Len(rr_out.reroute_recommendations.alternatives) >= 2
    /\ rr_out.reroute_recommendations.total_alternatives_evaluated < Len(rr_in.catalog)

\* ---- inputs of _calculate_role_score ----
ExperienceValues == {"beginner", "intermediate", "advanced", "expert"}
JobValues == {0, 25, 2500, 5000, 9000}
TrendValues == {"growing", "stable", "declining", "unknown"}
GrowthValues == {-50, -5, 0, 10, 25, 150}
BarrierValues == {0, 20, 50, 80, 100}
MustHaveValues == {<<>>, <<"SQL">>, <<"SQL", "Power BI">>, <<"Excel", "Tableau", "R">>}

\* the role "Data Scientist" that the candidate is an alternative to
ScoreFailedRole ==
    [name |-> "Data Scientist", total_jobs |-> 3000, trend |-> "growing",
     growth_rate_yoy |-> 25, entry_barrier |-> 70,
     must_have |-> <<"Python", "SQL", "Machine Learning">>]

ScoreInit ==
    /\ sc_in \in [role_data : [name : {"BI Developer"},
                               total_jobs : JobValues,
                               trend : TrendValues,
                               growth_rate_yoy : GrowthValues,
                               entry_barrier : BarrierValues,
                               must_have : MustHaveValues],
                  career_paths : {NoCareerPaths, SomeCareerPaths},
                  student_profile : [technical_skills : {<<>>, <<"sql", "Python">>},
                                     experience_level : ExperienceValues]]
    /\ sc_out = NoResult
    /\ FeasIdle /\ MarketIdle /\ RerouteIdle /\ TrackerIdle /\ AppIdle

CalculateRoleScore ==
    /\ sc_out = NoResult
    /\ \E b \in calculate_role_score(sc_in.role_data,
                    extract_student_skills(sc_in.student_profile),
                    ScoreFailedRole.name, sc_in.student_profile,
                    <<sc_in.role_data, ScoreFailedRole>>,
                    sc_in.career_paths, StandardTaxonomy) :
          sc_out' = [status |-> "scored", breakdown |-> b]
    /\ UNCHANGED <<sc_in, feas_vars, market_vars, reroute_vars, tracker_vars, app_vars>>

ScoreNext == CalculateRoleScore

SpecScore == ScoreInit /\ [][ScoreNext]_vars

InUnit(x) == 0 <= x /\ x <= 1000

\* C9: for every candidate role and every valid input (total_jobs >= 0, any
\* trend, any growth_rate_yoy including negative ones, entry_barrier in
\* [0,1], any experience level) total_score lies in [0,1], and so does each
\* of its four components.
C9_ScoresInUnitInterval ==
    sc_out.status = "scored" =>
        /\ InUnit(sc_out.breakdown.total_score)
        /\ InUnit(sc_out.breakdown.skill_overlap)
        /\ InUnit(sc_out.breakdown.market_demand)
        /\ InUnit(sc_out.breakdown.progression_potential)
        /\ InUnit(sc_out.breakdown.ease_of_entry)

(***************************************************************************)
(* FeasibilityEvaluator (src/agents/feasibility_evaluator.py)              *)
(***************************************************************************)

\* thresholds of _make_decision, in thousandths
FEASIBLE_THRESHOLD == 650
CHALLENGING_THRESHOLD == 450

\* _calculate_skill_score: skill_match in hundredths -> score in hundredths
calculate_skill_score(skill_match) ==
    IF skill_match >= 70 THEN 100
    ELSE IF skill_match >= 50 THEN 80
    ELSE IF skill_match >= 30 THEN 60
    ELSE IF skill_match >= 15 THEN 40
    ELSE 20

\* _calculate_market_score: demand_score/100.0, i.e. the 0..100 demand score
\* read as hundredths -> score in hundredths
calculate_market_score(demand_score) ==
    IF demand_score >= 80 THEN 100
    ELSE IF demand_score >= 60 THEN 85
    ELSE IF demand_score >= 40 THEN 65
    ELSE IF demand_score >= 20 THEN 45
    ELSE 25

\* experience_levels.get(experience_level, 0.2), in hundredths
experience_levels(experience_level) ==
    CASE experience_level = "beginner" -> 20
      [] experience_level = "intermediate" -> 50
      [] experience_level = "advanced" -> 90
      [] OTHER -> 20

\* gap = entry_barrier - student_level is a float subtraction.  On barriers
\* with two decimals it equals the exact difference in every comparison the
\* code makes, except 0.8 - 0.2 = 0.6000000000000001, which is above 0.6.
GapAbove(entry_barrier, student_level, bound) ==
    \/ entry_barrier - student_level > bound
    \/ entry_barrier = 80 /\ student_level = 20 /\ bound = 60

\* _calculate_barrier_score: entry_barrier in hundredths -> score in hundredths
calculate_barrier_score(entry_barrier, experience_level) ==
    LET student_level == experience_levels(experience_level) IN
    IF entry_barrier <= student_level THEN 100
    ELSE IF ~GapAbove(entry_barrier, student_level, 20) THEN 80
    ELSE IF ~GapAbove(entry_barrier, student_level, 40) THEN 60
    ELSE IF ~GapAbove(entry_barrier, student_level, 60) THEN 40
    ELSE 20

\* capacity_multipliers.get(learning_capacity, 1.3), in tenths
capacity_multipliers(learning_capacity) ==
    CASE learning_capacity = "high" -> 10
      [] learning_capacity = "medium" -> 13
      [] learning_capacity = "low" -> 16
      [] OTHER -> 13

\* _calculate_time_score: total_weeks in tenths of a week -> score in hundredths
calculate_time_score(learning_capacity, missing_skills_count) ==
    LET total_weeks == missing_skills_count * 4 * capacity_multipliers(learning_capacity) IN
    IF total_weeks <= 120 THEN 100
    ELSE IF total_weeks <= 240 THEN 80
    ELSE IF total_weeks <= 360 THEN 60
    ELSE IF total_weeks <= 480 THEN 40
    ELSE 20

\* a weighted sum whose weights do not add up to 1
weighted_feasibility_overweight(skill_score, market_score, barrier_score, time_score) ==
    skill_score * 4 + market_score * 3 + barrier_score * 3 + time_score * 1

\* the weighted sum of evaluate, in thousandths (hundredths times tenths)
weighted_feasibility(skill_score, market_score, barrier_score, time_score) ==
    skill_score * 4 + market_score * 3 + barrier_score * 2 + time_score * 1

\* make_decision with the thresholds compared after truncating the score to
\* one decimal
make_decision_truncating(feasibility_score) ==
    IF (feasibility_score \div 100) * 100 >= FEASIBLE_THRESHOLD THEN
        [verdict |-> "FEASIBLE", confidence |-> "high", action |-> "generate_direct_roadmap"]
    ELSE IF (feasibility_score \div 100) * 100 >= CHALLENGING_THRESHOLD THEN
        [verdict |-> "CHALLENGING", confidence |-> "medium", action |-> "offer_choice"]
    ELSE
        [verdict |-> "NOT_FEASIBLE", confidence |-> "high", action |-> "suggest_reroute"]

\* _make_decision: the verdict for a score in thousandths
make_decision(feasibility_score) ==
    IF feasibility_score >= FEASIBLE_THRESHOLD THEN
        [verdict |-> "FEASIBLE", confidence |-> "high", action |-> "generate_direct_roadmap"]
    ELSE IF feasibility_score >= CHALLENGING_THRESHOLD THEN
        [verdict |-> "CHALLENGING", confidence |-> "medium", action |-> "offer_choice"]
    ELSE
        [verdict |-> "NOT_FEASIBLE", confidence |-> "high", action |-> "suggest_reroute"]

\* round(x, 2) of a score in thousandths, in hundredths.  An exact tie
\* (x.xx5) is decided by the binary value of the float sum, which lies on
\* either side of the tie: both results are possible.
round2(x) ==
    IF x % 10 = 5 THEN {x \div 10, x \div 10 + 1}
    ELSE IF x % 10 < 5 THEN {x \div 10}
    ELSE {x \div 10 + 1}

\* reasons for the factors that score below 0.3 only
generate_reasons_critical_only(skill_score, market_score, barrier_score, time_score) ==
    (IF skill_score < 30 THEN <<[type |-> "skill_gap", severity |-> "critical"]>> ELSE <<>>)
    \o (IF market_score < 30
        THEN <<[type |-> "low_market_demand", severity |-> "critical"]>> ELSE <<>>)
    \o (IF barrier_score < 30
        THEN <<[type |-> "high_entry_barrier", severity |-> "critical"]>> ELSE <<>>)
    \o (IF time_score < 30
        THEN <<[type |-> "long_learning_path", severity |-> "medium"]>> ELSE <<>>)

\* _generate_reasons: the reason types, in the order they are appended
generate_reasons(skill_score, market_score, barrier_score, time_score) ==
    (IF skill_score < 50
        THEN <<[type |-> "skill_gap",
                severity |-> IF skill_score < 30 THEN "critical" ELSE "high"]>>
        ELSE <<>>)
    \o (IF market_score < 50
        THEN <<[type |-> "low_market_demand",
                severity |-> IF market_score < 30 THEN "critical" ELSE "high"]>>
        ELSE <<>>)
    \o (IF barrier_score < 50
        THEN <<[type |-> "high_entry_barrier",
                severity |-> IF barrier_score < 30 THEN "critical" ELSE "medium"]>>
        ELSE <<>>)
    \o (IF time_score < 50
        THEN <<[type |-> "long_learning_path", severity |-> "medium"]>>
        ELSE <<>>)

\* evaluate: the set of results it can return for one input
evaluate(in) ==
    LET skill_score == calculate_skill_score(in.skill_match)
        market_score == calculate_market_score(in.demand_score)
        barrier_score == calculate_barrier_score(in.entry_barrier, in.experience_level)
        time_score == calculate_time_score(in.learning_capacity, in.missing_skills_count)
        feasibility_score ==
            weighted_feasibility(skill_score, market_score, barrier_score, time_score)
        decision == make_decision(feasibility_score)
    IN  { [status |-> "evaluated",
           verdict |-> decision.verdict,
           confidence |-> decision.confidence,
           action |-> decision.action,
           feasibility_score |-> r,
           factor_scores |-> [skill_match |-> skill_score,
                              market_demand |-> market_score,
                              entry_barrier |-> barrier_score,
                              time_to_competency |-> time_score],
           reasons |-> generate_reasons(skill_score, market_score,
                                        barrier_score, time_score)]
          : r \in round2(feasibility_score) }

\* ---- inputs of evaluate ----
MaxMissing == 13
SkillMatchValues == {0, 14, 15, 29, 30, 49, 50, 69, 70, 100}
DemandScoreValues == {0, 19, 20, 39, 40, 59, 60, 79, 80, 100}
EntryBarrierValues == {10, 20, 40, 60, 80, 81, 100}
CapacityValues == {"high", "medium", "low", "unknown"}

FeasInputs ==
    [skill_match : SkillMatchValues,
     demand_score : DemandScoreValues,
     entry_barrier : EntryBarrierValues,
     experience_level : ExperienceValues,
     learning_capacity : CapacityValues,
     missing_skills_count : 0..MaxMissing]

FeasInit ==
    /\ fe_in \in FeasInputs
    /\ fe_out = NoResult
    /\ MarketIdle /\ RerouteIdle /\ ScoreIdle /\ TrackerIdle /\ AppIdle

Evaluate ==
    /\ fe_out = NoResult
    /\ fe_out' \in evaluate(fe_in)
    /\ UNCHANGED <<fe_in, market_vars, reroute_vars, score_vars, tracker_vars, app_vars>>

FeasNext == Evaluate

SpecFeas == FeasInit /\ [][FeasNext]_vars

\* C1: the verdict agrees with the returned (rounded) feasibility_score:
\* FEASIBLE iff score >= 0.65, CHALLENGING iff 0.45 <= score < 0.65,
\* NOT_FEASIBLE otherwise.
C1_VerdictAgreesWithScore ==
    fe_out.status = "evaluated" =>
        /\ fe_out.verdict = "FEASIBLE" <=> fe_out.feasibility_score >= 65
        /\ fe_out.verdict = "CHALLENGING" <=>
              (45 <= fe_out.feasibility_score /\ fe_out.feasibility_score < 65)
        /\ fe_out.verdict = "NOT_FEASIBLE" <=> fe_out.feasibility_score < 45

\* an evaluation whose returned score is exactly 0.65, with verdict FEASIBLE
C1_Witness ==
    /\ fe_out.status = "evaluated"
    /\ fe_out.feasibility_score = 65
    /\ fe_out.verdict = "FEASIBLE"

(***************************************************************************)
(* ProgressTracker (src/agents/progress_tracker.py)                        *)
(*                                                                         *)
(* student_states maps a session_id to the state dict of its journey:      *)
(*   [target_role, roadmap, total_steps, current_step, completed_steps,    *)
(*    blocked_steps, time_spent, market_snapshot, student_profile,         *)
(*    reroute_count, motivation_level]                                     *)
(* roadmap is a sequence of [duration_weeks, skills_covered];              *)
(* blocked_steps a sequence of [step, attempts]; time_spent a function     *)
(* from the steps that reported a time to hours; motivation_level is in    *)
(* tenths.  student_profile is [experience_level, has_technical_skills,    *)
(* technical_skills], technical_skills being [tools, learned]: tools a     *)
(* list of names and learned the bag of the names in the list              *)
(* technical_skills["learned"] (a missing key reads as the empty list).    *)
(* The list is extended with list(set(...)), whose order is unspecified,   *)
(* and is only ever read into a set, so the bag keeps what can be observed.*)
(* The timestamps and the blockers' reason strings are left out.           *)
(***************************************************************************)

\* the data the tracker's market agent and reroute agent were constructed with
TrackerCatalog ==
    << [name |-> "Data Analyst", total_jobs |-> 4500, trend |-> "growing",
        growth_rate_yoy |-> 15, entry_barrier |-> 30, must_have |-> <<"SQL", "Excel">>],
       [name |-> "Data Scientist", total_jobs |-> 3000, trend |-> "growing",
        growth_rate_yoy |-> 25, entry_barrier |-> 70,
        must_have |-> <<"Python", "SQL", "Machine Learning">>],
       [name |-> "BI Developer", total_jobs |-> 1200, trend |-> "declining",
        growth_rate_yoy |-> -5, entry_barrier |-> 40, must_have |-> <<"SQL", "Power BI">>] >>

\* the elements of a list
Elems(list) == {list[i] : i \in 1..Len(list)}

\* a set as a list, for the callees that take lists and only test membership
RECURSIVE SetToSeq(_)
SetToSeq(S) ==
    IF S = {} THEN <<>>
    ELSE LET x == CHOOSE y \in S : TRUE IN <<x>> \o SetToSeq(S \ {x})

\* sum(f.values()) for a function f with a finite domain
RECURSIVE SumOver(_, _)
SumOver(f, D) ==
    IF D = {} THEN 0
    ELSE LET x == CHOOSE y \in D : TRUE IN f[x] + SumOver(f, D \ {x})

\* round(num / den * scale) to the nearest integer, for den > 0; the
\* quotients that arise are never exact ties
RoundDiv(num, den) ==
    IF num >= 0 THEN (2 * num + den) \div (2 * den)
    ELSE -((2 * (-num) + den) \div (2 * den))

\* _get_skills_learned: the set that list(set(learned_skills)) holds
get_skills_learned(state) ==
    UNION { Elems(state.roadmap[step_num].skills_covered)
            : step_num \in {n \in Elems(state.completed_steps) :
                                n - 1 < Len(state.roadmap)} }

\* _update_profile_with_learned_skills: the profile it returns, and the
\* stored profile afterwards.  profile is a shallow copy, so a technical_skills
\* dict that exists is shared with the stored profile and its learned list is
\* extended in place; a missing one is created on the copy only.
update_profile_with_learned_skills(state) ==
    LET profile == state.student_profile
        learned_skills == get_skills_learned(state)
        extended ==
            [profile.technical_skills EXCEPT
                !.learned = @ (+) SetToBag(learned_skills)]
        updated == [profile EXCEPT !.has_technical_skills = TRUE,
                                   !.technical_skills = extended]
    IN  [profile |-> updated,
         stored |-> IF profile.has_technical_skills THEN updated ELSE profile]

\* _extract_current_skills: the set that list(set(all_skills)) holds
extract_current_skills(profile) ==
    IF profile.has_technical_skills
        THEN Elems(profile.technical_skills.tools)
                 \cup BagToSet(profile.technical_skills.learned)
        ELSE {}

\* analyze_role_market(...).get("market_analysis", {}): the dict {} is the
\* record without fields
market_analysis_or_empty(answer) == IF answer.status = "ok" THEN answer ELSE <<>>

\* _calculate_market_shift: demand_change_pct in tenths of a percent.
\* current is the "market_analysis" of the fresh analysis, {} when the role
\* was not found.
calculate_market_shift(original, current) ==
    LET orig_jobs == original.active_jobs
        curr_jobs == IF "active_jobs" \in DOMAIN current THEN current.active_jobs ELSE 0
    IN  [demand_change_pct |-> IF orig_jobs > 0
                                  THEN RoundDiv((curr_jobs - orig_jobs) * 1000, orig_jobs)
                                  ELSE 0,
         original_jobs |-> orig_jobs,
         current_jobs |-> curr_jobs]

\* list.sort(key = skill_match, reverse = True) of get_roles_for_skills
RECURSIVE SortByMatch(_)
SortByMatch(list) ==
    IF list = <<>> THEN <<>>
    ELSE LET sorted == SortByMatch(SubSeq(list, 1, Len(list) - 1))
             x == list[Len(list)]
             k == Cardinality({i \in 1..Len(sorted) :
                                 sorted[i].skill_match >= x.skill_match})
         IN  SubSeq(sorted, 1, k) \o <<x>> \o SubSeq(sorted, k + 1, Len(sorted))

\* get_roles_for_skills
get_roles_for_skills(catalog, taxonomy, student_skills, min_match) ==
    LET matching == roles_matching(catalog, taxonomy, student_skills, min_match)
    IN  SortByMatch([i \in 1..Len(matching) |->
            [role |-> matching[i].name,
             skill_match |-> analyze_skill_gap(matching[i], student_skills,
                                               taxonomy).skill_match]])

\* list[:n]
FirstN(list, n) == SubSeq(list, 1, Min(n, Len(list)))

\* _find_newly_accessible_careers
find_newly_accessible_careers(current_skills) ==
    FirstN(get_roles_for_skills(TrackerCatalog, StandardTaxonomy, current_skills, 50), 3)

\* what reevaluate_path asks of the market agent and the reroute agent for
\* a target role, a set of current skills and an experience level: the fresh
\* market analysis, the newly accessible careers, and the lists of
\* alternative role names find_alternatives(top_n = 3) can return
agent_calls(target_role, current_skills, experience_level) ==
    LET skills == SetToSeq(current_skills) IN
    [current_market_analysis |->
        market_analysis_or_empty(analyze_role_market(TrackerCatalog, StandardTaxonomy,
                                                     target_role, skills)),
     newly_accessible |-> find_newly_accessible_careers(skills),
     alternatives |->
        { [i \in 1..Len(r.alternatives) |-> r.alternatives[i].role]
          : r \in find_alternatives([technical_skills |-> skills,
                                     experience_level |-> experience_level],
                                    target_role, 3, TrackerCatalog,
                                    SomeCareerPaths, StandardTaxonomy) }]

\* ---- inputs of the tracker ----
\* steps of the roadmap
MaxSteps == 3
\* step numbers reported as blocked and reports made in a journey, where the
\* operations are mixed freely
MaxBlockStep == 3
MaxReports == 4
\* reports made of one step
MaxAttempts == 3
\* step numbers reported as blocked and reports made in a journey, where
\* only the first step gets completed
MaxManyBlocked == 5
MaxManyReports == 6
\* copies of one name in the learned list
MaxLearnedCopies == 2

SessionIds == {"s1"}
TargetRoles == {"Data Analyst"}
\* target roles the catalog does not have
UnlistedRoles == {"Chef"}
TimeChoices == {0, 100}  \* 0 stands for None

\* the skills each roadmap step covers
StepSkills ==
    << <<"Git", "Linux">>, <<"Docker">>, <<"SQL">>, <<"Power BI">>, <<"Python">>,
       <<"Machine Learning">> >>

TrackerRoadmap(n) ==
    [i \in 1..n |-> [duration_weeks |-> 1,
                     skills_covered |-> StepSkills[((i - 1) % Len(StepSkills)) + 1]]]

TrackerProfiles ==
    { [experience_level |-> "beginner", has_technical_skills |-> TRUE,
       technical_skills |-> [tools |-> <<"Excel">>, learned |-> EmptyBag]],
      [experience_level |-> "beginner", has_technical_skills |-> FALSE,
       technical_skills |-> [tools |-> <<>>, learned |-> EmptyBag]] }

MarketSnapshots == {[active_jobs |-> 4500], [active_jobs |-> 9000]}

\* the sets of current skills a journey can have
TrackerSkillSets ==
    { Elems(p.technical_skills.tools)
        \cup UNION {Elems(TrackerRoadmap(MaxSteps)[n].skills_covered) : n \in done}
      : p \in TrackerProfiles, done \in SUBSET (1..MaxSteps) }

\* agent_calls for every journey of the model, worked out once
AgentCalls ==
    [t \in TargetRoles \cup UnlistedRoles, skills \in TrackerSkillSets |->
        agent_calls(t, skills, "beginner")]

\* the number of the test of _should_reevaluate that returns True, 0 when it
\* returns False
should_reevaluate_trigger(state) ==
    LET total_time_spent == SumOver(state.time_spent, DOMAIN state.time_spent)
        completed_count == Len(state.completed_steps)
        done == {i \in 1..Len(state.roadmap) : i \in Elems(state.completed_steps)}
        expected_time ==
            SumOver([i \in done |-> state.roadmap[i].duration_weeks * 40], done)
    IN  IF Len(state.blocked_steps) >= 2 THEN 1
        ELSE IF \E b \in 1..Len(state.blocked_steps) :
                    state.blocked_steps[b].attempts >= 3 THEN 2
        ELSE IF Len(state.completed_steps) > 0 /\ Len(state.completed_steps) % 3 = 0
            THEN 3
        ELSE IF /\ completed_count > 0
                /\ expected_time > 0
                /\ 2 * total_time_spent > 3 * expected_time THEN 4
        ELSE IF state.motivation_level < 5 THEN 5
        ELSE 0

\* a test that looks at the number of blocked steps only
should_reevaluate_blockers_only(state) == Len(state.blocked_steps) >= 2

\* _should_reevaluate
should_reevaluate(state) == should_reevaluate_trigger(state) # 0

\* _generate_recommendation
generate_recommendation(triggers) ==
    LET IsHigh(t) == t.severity = "high"
        high_severity == SelectSeq(triggers, IsHigh)
    IN  IF high_severity # <<>> /\ high_severity[1].type = "performance"
            THEN "Consider switching to an easier role that better matches your current skills"
        ELSE IF high_severity # <<>> /\ high_severity[1].type = "market_decline"
            THEN "Market conditions have changed - explore growing career fields"
        ELSE "Review alternative paths that might be better suited to your progress"

\* the test "if reroute_triggers:" of reevaluate_path
reroute_decided(reroute_triggers) == reroute_triggers # <<>>

\* the triggers reevaluate_path collects, in the order it tests them: state is
\* the session's state, asked what the market agent and the reroute agent
\* answer for it
performance_trigger(state) ==
    IF Len(state.blocked_steps) >= 2
        THEN << [type |-> "performance", severity |-> "high"] >> ELSE <<>>

market_decline_trigger(market_shift) ==
    IF market_shift.demand_change_pct < -200
        THEN << [type |-> "market_decline", severity |-> "high"] >> ELSE <<>>

new_opportunities_trigger(skills_learned, new_opportunities) ==
    IF Cardinality(skills_learned) >= 3 /\ new_opportunities # <<>>
        THEN << [type |-> "new_opportunities", severity |-> "low"] >> ELSE <<>>

slow_progress_trigger(state) ==
    IF state.motivation_level < 5
        THEN << [type |-> "slow_progress", severity |-> "medium"] >> ELSE <<>>

collect_reroute_triggers(state, asked) ==
    performance_trigger(state)
    \o market_decline_trigger(calculate_market_shift(state.market_snapshot,
                                                     asked.current_market_analysis))
    \o new_opportunities_trigger(get_skills_learned(state), asked.newly_accessible)
    \o slow_progress_trigger(state)

\* what reevaluate_path returns for the triggers collected: a result with the
\* field raised is the exception that leaves the call
reevaluation_results(state, reroute_triggers, asked) ==
    IF reroute_decided(reroute_triggers) THEN
        { [action |-> "suggest_reroute",
           triggers |-> reroute_triggers,
           current_market_analysis |-> asked.current_market_analysis,
           alternatives |-> a,
           recommendation |-> generate_recommendation(reroute_triggers)]
          : a \in asked.alternatives }
    ELSE IF state.total_steps = 0 THEN
        { [raised |-> "ZeroDivisionError"] }
    ELSE
        { [action |-> "continue",
           status |-> "on_track",
           progress |-> <<Len(state.completed_steps) * 100, state.total_steps>>] }

\* reevaluate_path from the agents' answers on
reevaluate_asked(state, stored, asked) ==
    { [result |-> r, student_profile |-> stored]
      : r \in reevaluation_results(state, collect_reroute_triggers(state, asked),
                                   asked) }

\* reevaluate_path from the updated profile on
reevaluate_updated(state, upd) ==
    reevaluate_asked(state, upd.stored,
                     AgentCalls[state.target_role, extract_current_skills(upd.profile)])

\* reevaluate_path on an existing session: the results it can give, each with
\* the stored profile it leaves
reevaluate_path(state) ==
    reevaluate_updated(state, update_profile_with_learned_skills(state))

\* get_progress_summary on an existing session: the percentages in tenths
progress_summary(session_id, state) ==
    LET completed == Len(state.completed_steps)
        total_time == SumOver(state.time_spent, DOMAIN state.time_spent)
        done == {i \in 1..Len(state.roadmap) : i \in Elems(state.completed_steps)}
        expected_time ==
            SumOver([i \in done |-> state.roadmap[i].duration_weeks * 40], done)
    IN  [session_id |-> session_id,
         target_role |-> state.target_role,
         progress |->
            [completed_steps |-> completed,
             total_steps |-> state.total_steps,
             progress_percentage |->
                IF state.total_steps > 0
                    THEN RoundDiv(completed * 1000, state.total_steps) ELSE 0,
             remaining_steps |-> state.total_steps - completed],
         time |->
            [total_hours_spent |-> total_time,
             expected_hours |-> expected_time,
             efficiency_percentage |->
                IF total_time > 0 THEN RoundDiv(expected_time * 1000, total_time)
                ELSE 1000],
         blockers |-> [count |-> Len(state.blocked_steps),
                       details |-> state.blocked_steps],
         motivation_level |-> state.motivation_level,
         reroute_count |-> state.reroute_count]

\* roadmap[i - 1] of Python for i >= 0: a negative index counts from the end
\* of the list, an index outside the list raises IndexError
list_item(list, index) ==
    IF index >= 0 /\ index < Len(list) THEN [value |-> list[index + 1]]
    ELSE IF index < 0 /\ -index <= Len(list) THEN [value |-> list[Len(list) + index + 1]]
    ELSE [raised |-> "IndexError"]

\* get_next_step on an existing session
next_step(state) ==
    IF state.current_step > state.total_steps THEN [status |-> "completed"]
    ELSE IF "raised" \in DOMAIN list_item(state.roadmap, state.current_step - 1)
        THEN list_item(state.roadmap, state.current_step - 1)
    ELSE [status |-> "in_progress",
          next_step |-> list_item(state.roadmap, state.current_step - 1).value,
          step_number |-> state.current_step,
          total_steps |-> state.total_steps]

\* what every operation returns for a session_id it does not know
session_not_found_unmarked == [status |-> "Session not found"]

session_not_found == [error |-> "Session not found"]

\* the learned list stays within MaxLearnedCopies copies of a name
LearnedWithinBound(profile) ==
    \A s \in BagToSet(profile.technical_skills.learned) :
        CopiesIn(s, profile.technical_skills.learned) <= MaxLearnedCopies

TrackerInit ==
    /\ student_states = <<>>
    /\ request = NoInput
    /\ response = NoResult
    /\ reported = <<>>
    /\ FeasIdle /\ MarketIdle /\ RerouteIdle /\ ScoreIdle /\ AppIdle

\* initialize_journey, for the roadmap sizes and target roles given
JourneyStart(sizes, target_roles) ==
    \E session_id \in SessionIds, n \in sizes, student_profile \in TrackerProfiles,
       target_role \in target_roles, market_snapshot \in MarketSnapshots :
        LET roadmap == TrackerRoadmap(n) IN
        /\ student_states' =
              (session_id :>
                  [target_role |-> target_role,
                   roadmap |-> roadmap,
                   total_steps |-> Len(roadmap),
                   current_step |-> 0,
                   completed_steps |-> <<>>,
                   blocked_steps |-> <<>>,
                   time_spent |-> <<>>,
                   market_snapshot |-> market_snapshot,
                   student_profile |-> student_profile,
                   reroute_count |-> 0,
                   motivation_level |-> 10]) @@ student_states
        /\ request' = [op |-> "initialize_journey", session_id |-> session_id]
        /\ response' = [status |-> "initialized",
                        session_id |-> session_id,
                        total_steps |-> Len(roadmap),
                        estimated_completion_weeks |->
                            SumOver([i \in 1..Len(roadmap) |-> roadmap[i].duration_weeks],
                                    1..Len(roadmap))]
        /\ reported' = (session_id :> <<>>) @@ reported
        /\ UNCHANGED <<feas_vars, market_vars, reroute_vars, score_vars, app_vars>>

\* a test that takes no step for completed
never_completed(state, step_number) == FALSE

\* the test "if step_number in state['completed_steps']" of record_step_completion
already_completed(state, step_number) == step_number \in Elems(state.completed_steps)

\* record_step_completion, for the sessions, step numbers and hours given
StepCompletion(sessions, step_numbers, hours) ==
    \E session_id \in sessions, step_number \in step_numbers,
       time_spent_hours \in hours :
        /\ request' = [op |-> "record_step_completion", session_id |-> session_id,
                        step_number |-> step_number]
        /\ IF session_id \notin DOMAIN student_states THEN
              /\ response' = session_not_found
              /\ UNCHANGED student_states
           ELSE LET state == student_states[session_id] IN
              IF step_number < 1 \/ step_number > state.total_steps THEN
                 /\ response' = [error |-> "Invalid step number: " \o ToString(step_number)]
                 /\ UNCHANGED student_states
              ELSE IF already_completed(state, step_number) THEN
                 /\ response' = [status |-> "already_completed", step |-> step_number]
                 /\ UNCHANGED student_states
              ELSE
                 LET recorded ==
                        [state EXCEPT
                            !.completed_steps = Append(@, step_number),
                            !.current_step = step_number + 1,
                            !.time_spent = IF time_spent_hours # 0
                                              THEN (step_number :> time_spent_hours) @@ @
                                              ELSE @]
                     answer ==
                        [status |-> "completed",
                         step_number |-> step_number,
                         progress_percentage |->
                            RoundDiv(Len(recorded.completed_steps) * 1000,
                                     recorded.total_steps),
                         completed_steps |-> Len(recorded.completed_steps),
                         remaining_steps |->
                            recorded.total_steps - Len(recorded.completed_steps),
                         should_reevaluate |-> should_reevaluate(recorded)]
                 IN  IF should_reevaluate(recorded) THEN
                        \E re \in reevaluate_path(recorded) :
                            /\ LearnedWithinBound(re.student_profile)
                            /\ student_states' =
                                  [student_states EXCEPT ![session_id] =
                                      [recorded EXCEPT
                                          !.student_profile = re.student_profile]]
                            /\ response' = answer @@ [reevaluation |-> re.result]
                     ELSE
                        /\ student_states' =
                              [student_states EXCEPT ![session_id] = recorded]
                        /\ response' = answer
        /\ UNCHANGED <<reported, feas_vars, market_vars, reroute_vars, score_vars, app_vars>>

\* the index of the first blocker of the step in blocked_steps, 0 for None
existing_blocker(blocked_steps, step_number) ==
    IF \E i \in 1..Len(blocked_steps) : blocked_steps[i].step = step_number
        THEN CHOOSE i \in 1..Len(blocked_steps) :
                /\ blocked_steps[i].step = step_number
                /\ \A j \in 1..(i - 1) : blocked_steps[j].step # step_number
        ELSE 0

\* the upsert of record_blocker that appends an entry for every report
upsert_blocker_always_append(blocked_steps, step_number, attempts) ==
    Append(blocked_steps, [step |-> step_number, attempts |-> attempts])

\* an upsert that keeps the blocker of the reported step only
upsert_blocker_replacing(blocked_steps, step_number, attempts) ==
    << [step |-> step_number, attempts |-> attempts] >>

\* the upsert of record_blocker into blocked_steps
upsert_blocker(blocked_steps, step_number, attempts) ==
    LET e == existing_blocker(blocked_steps, step_number) IN
    IF e # 0 THEN [blocked_steps EXCEPT ![e].attempts = @ + 1]
    ELSE Append(blocked_steps, [step |-> step_number, attempts |-> attempts])

\* the motivation that loses 0.2 for every report made
motivation_per_report(blocked_steps) ==
    LET reports == SumOver([i \in 1..Len(blocked_steps) |-> blocked_steps[i].attempts],
                           1..Len(blocked_steps))
    IN  Max(10 - reports * 2, 1)

\* max(1.0 - (blocker_count * 0.2), 0.1) of record_blocker, in tenths
motivation_after(blocked_steps) ==
    LET blocker_count == Len(blocked_steps) IN Max(10 - blocker_count * 2, 1)

\* record_blocker, for the sessions and step numbers given and at most max_reports calls
\* in a journey (the caller leaves attempts at its default of 1)
BlockerReport(sessions, step_numbers, max_reports) ==
    \E session_id \in sessions, step_number \in step_numbers :
        LET attempts == 1 IN
        /\ request' = [op |-> "record_blocker", session_id |-> session_id,
                        step_number |-> step_number]
        /\ IF session_id \notin DOMAIN student_states THEN
              /\ response' = session_not_found
              /\ UNCHANGED <<student_states, reported>>
           ELSE
              LET state == student_states[session_id]
                  times == reported[session_id]
                  so_far == IF step_number \in DOMAIN times THEN times[step_number] ELSE 0
                  existed == existing_blocker(state.blocked_steps, step_number) # 0
                  blocked == upsert_blocker(state.blocked_steps, step_number, attempts)
                  blocker_count == Len(blocked)
                  recorded == [state EXCEPT !.blocked_steps = blocked,
                                            !.motivation_level = motivation_after(blocked)]
                  entry == blocked[existing_blocker(blocked, step_number)]
                  answer ==
                     [status |-> "blocker_recorded",
                      step_number |-> step_number,
                      total_blockers |-> blocker_count,
                      motivation_level |-> recorded.motivation_level,
                      should_reevaluate |-> should_reevaluate(recorded)]
              IN  /\ so_far < MaxAttempts
                  /\ SumOver(times, DOMAIN times) < max_reports
                  /\ reported' = [reported EXCEPT ![session_id] =
                                     (step_number :> (so_far + 1)) @@ @]
                  /\ IF blocker_count >= 2 \/ (existed /\ entry.attempts >= 3) THEN
                        \E re \in reevaluate_path(recorded) :
                            /\ LearnedWithinBound(re.student_profile)
                            /\ student_states' =
                                  [student_states EXCEPT ![session_id] =
                                      [recorded EXCEPT
                                          !.student_profile = re.student_profile]]
                            /\ response' =
                                  IF "raised" \in DOMAIN re.result
                                      THEN [raised |-> re.result.raised]
                                      ELSE answer @@
                                           [reevaluation |-> re.result,
                                            recommendation |-> "Consider alternative path"]
                     ELSE
                        /\ student_states' =
                              [student_states EXCEPT ![session_id] = recorded]
                        /\ response' = answer
        /\ UNCHANGED <<feas_vars, market_vars, reroute_vars, score_vars, app_vars>>

\* reevaluate_path, called on its own
PathReevaluation(sessions) ==
    \E session_id \in sessions :
        /\ request' = [op |-> "reevaluate_path", session_id |-> session_id]
        /\ IF session_id \notin DOMAIN student_states THEN
              /\ response' = session_not_found
              /\ UNCHANGED student_states
           ELSE
              \E re \in reevaluate_path(student_states[session_id]) :
                  /\ LearnedWithinBound(re.student_profile)
                  /\ student_states' =
                        [student_states EXCEPT ![session_id].student_profile =
                            re.student_profile]
                  /\ response' = re.result
        /\ UNCHANGED <<reported, feas_vars, market_vars, reroute_vars, score_vars, app_vars>>

\* get_progress_summary: the percentages in tenths
ProgressSummary(sessions) ==
    \E session_id \in sessions :
        /\ request' = [op |-> "get_progress_summary", session_id |-> session_id]
        /\ IF session_id \notin DOMAIN student_states THEN
              response' = session_not_found
           ELSE
              response' = progress_summary(session_id, student_states[session_id])
        /\ UNCHANGED <<student_states, reported, feas_vars, market_vars, reroute_vars,
                       score_vars, app_vars>>

\* get_next_step
NextStep(sessions) ==
    \E session_id \in sessions :
        /\ request' = [op |-> "get_next_step", session_id |-> session_id]
        /\ IF session_id \notin DOMAIN student_states THEN
              response' = session_not_found
           ELSE
              response' = next_step(student_states[session_id])
        /\ UNCHANGED <<student_states, reported, feas_vars, market_vars, reroute_vars,
                       score_vars, app_vars>>

\* every operation, on a short roadmap with few blocked steps
InitializeJourney == JourneyStart({0, MaxSteps}, TargetRoles)

RecordStepCompletion == StepCompletion(SessionIds, 0..(MaxSteps + 1), TimeChoices)

RecordBlocker == BlockerReport(SessionIds, 1..MaxBlockStep, MaxReports)

ReevaluatePath == PathReevaluation(SessionIds)

TrackerNext ==
    \/ InitializeJourney
    \/ RecordStepCompletion
    \/ RecordBlocker
    \/ ReevaluatePath

SpecTracker == TrackerInit /\ [][TrackerNext]_vars

\* every operation, with many blocked steps and only the first step completed
RecordFirstStep == StepCompletion(SessionIds, {1}, {0})

RecordBlockerOfMany == BlockerReport(SessionIds, 1..MaxManyBlocked, MaxManyReports)

BlockersNext ==
    \/ InitializeJourney
    \/ RecordFirstStep
    \/ RecordBlockerOfMany
    \/ ReevaluatePath

SpecBlockers == TrackerInit /\ [][BlockersNext]_vars

\* every operation, called for the session of a journey and for a session_id
\* that no journey was initialized for, on a roadmap of at most MaxSessionSteps
\* steps and with target roles the catalog has and has not
MaxSessionSteps == 2
MaxSessionReports == 3

UnknownSessions == {"s2"}
CalledIds == SessionIds \cup UnknownSessions

InitializeAnyJourney == JourneyStart({0, MaxSessionSteps}, TargetRoles \cup UnlistedRoles)

CallStepCompletion == StepCompletion(CalledIds, 0..(MaxSessionSteps + 1), {0})

CallBlocker == BlockerReport(CalledIds, 1..(MaxSessionSteps + 1), MaxSessionReports)

CallReevaluatePath == PathReevaluation(CalledIds)

GetProgressSummary == ProgressSummary(CalledIds)

GetNextStep == NextStep(CalledIds)

SessionsNext ==
    \/ InitializeAnyJourney
    \/ CallStepCompletion
    \/ CallBlocker
    \/ CallReevaluatePath
    \/ GetProgressSummary
    \/ GetNextStep

SpecSessions == TrackerInit /\ [][SessionsNext]_vars


(***************************************************************************)
(* Claims about the ProgressTracker                                        *)
(***************************************************************************)

\* the session the last call was made on, when it exists
CalledSession == student_states[request.session_id]

CalledOnSession ==
    /\ "session_id" \in DOMAIN request
    /\ request.session_id \in DOMAIN student_states

\* the last call returned a response with this status
Answered(status) == "status" \in DOMAIN response /\ response.status = status

\* the last call ran reevaluate_path on its session, and the result it
\* returned (NoResult when the call raised)
ReevaluationRan ==
    /\ CalledOnSession
    /\ \/ request.op = "reevaluate_path"
       \/ "reevaluation" \in DOMAIN response
       \/ "raised" \in DOMAIN response

Reevaluation ==
    IF "raised" \in DOMAIN response THEN NoResult
    ELSE IF request.op = "reevaluate_path" THEN response
    ELSE response.reevaluation

ReevaluationReturned == ReevaluationRan /\ "action" \in DOMAIN Reevaluation

\* the four trigger conditions, read off the session state
PerformanceFired(state) == Len(state.blocked_steps) >= 2

\* what the agents answer for the skills the session has now
AskedNow(state) ==
    AgentCalls[state.target_role,
               Elems(state.student_profile.technical_skills.tools)
                   \cup get_skills_learned(state)]

\* the role's jobs fell by more than 20% of the snapshot's
MarketDeclineFired(state) ==
    LET now == AskedNow(state).current_market_analysis
        curr_jobs == IF "active_jobs" \in DOMAIN now THEN now.active_jobs ELSE 0
        orig_jobs == state.market_snapshot.active_jobs
    IN  orig_jobs > 0 /\ (orig_jobs - curr_jobs) * 5 > orig_jobs

\* three skills learned and a role of the catalog matched at 50% or more
NewOpportunitiesFired(state) ==
    /\ Cardinality(get_skills_learned(state)) >= 3
    /\ AskedNow(state).newly_accessible # <<>>

SlowProgressFired(state) == state.motivation_level < 5

TriggersFired(state) ==
    (IF PerformanceFired(state) THEN {"performance"} ELSE {})
        \cup (IF MarketDeclineFired(state) THEN {"market_decline"} ELSE {})
        \cup (IF NewOpportunitiesFired(state) THEN {"new_opportunities"} ELSE {})
        \cup (IF SlowProgressFired(state) THEN {"slow_progress"} ELSE {})

\* C2: blocked_steps holds exactly one entry per distinct reported step, and
\* the entry's attempts is the number of times the step was reported
C2_OneEntryPerReportedStep ==
    \A session_id \in DOMAIN student_states :
        LET blocked_steps == student_states[session_id].blocked_steps
            times == reported[session_id]
        IN  /\ {blocked_steps[i].step : i \in 1..Len(blocked_steps)} = DOMAIN times
            /\ \A i, j \in 1..Len(blocked_steps) :
                  i # j => blocked_steps[i].step # blocked_steps[j].step
            /\ \A i \in 1..Len(blocked_steps) :
                  blocked_steps[i].attempts = times[blocked_steps[i].step]

\* a step reported twice next to a step reported once
C2_Witness ==
    /\ Answered("blocker_recorded")
    /\ CalledOnSession
    /\ \E i, j \in 1..Len(CalledSession.blocked_steps) :
          /\ CalledSession.blocked_steps[i].attempts = 2
          /\ reported[request.session_id][CalledSession.blocked_steps[i].step] = 2
          /\ CalledSession.blocked_steps[j].attempts = 1
    /\ Len(CalledSession.blocked_steps) = 2

\* C3: the periodic checkpoint fires once per multiple of 3: the completion
\* that brings the count to a multiple of 3 reports should_reevaluate, a
\* completion to another count is not answered by the checkpoint test, and
\* no record_blocker is answered by the checkpoint test
C3_CheckpointFiresOnce ==
    CalledOnSession =>
        LET count == Len(CalledSession.completed_steps)
            by_checkpoint == should_reevaluate_trigger(CalledSession) = 3
        IN  /\ Answered("completed") /\ count % 3 = 0 => response.should_reevaluate
            /\ Answered("completed") /\ count % 3 # 0 => ~by_checkpoint
            /\ Answered("blocker_recorded") =>
                  ~(response.should_reevaluate /\ by_checkpoint)

\* C4: reevaluate_path returns suggest_reroute exactly when a trigger fired
\* for the session state (and names the triggers that fired), and returns
\* continue otherwise
C4_RerouteIffTriggerFired ==
    ReevaluationRan =>
        /\ ReevaluationReturned
        /\ Reevaluation.action = "suggest_reroute"
              <=> TriggersFired(CalledSession) # {}
        /\ Reevaluation.action = "continue"
              <=> TriggersFired(CalledSession) = {}
        /\ Reevaluation.action = "suggest_reroute" =>
              {Reevaluation.triggers[i].type : i \in 1..Len(Reevaluation.triggers)}
                  = TriggersFired(CalledSession)

\* the part of C4 about the results that are returned
C4_ReturnedActionFollowsTriggers ==
    ReevaluationReturned =>
        /\ Reevaluation.action = "suggest_reroute"
              <=> TriggersFired(CalledSession) # {}
        /\ Reevaluation.action = "continue"
              <=> TriggersFired(CalledSession) = {}
        /\ Reevaluation.action = "suggest_reroute" =>
              {Reevaluation.triggers[i].type : i \in 1..Len(Reevaluation.triggers)}
                  = TriggersFired(CalledSession)

\* C5: a re-evaluation whose only trigger is the low-severity
\* new_opportunities results in continue
C5_LowSeverityAloneContinues ==
    ReevaluationReturned /\ TriggersFired(CalledSession) = {"new_opportunities"}
        => Reevaluation.action = "continue"

\* C6: with a single blocked step of attempts >= 3, reevaluate_path reports
\* a performance trigger of severity high or critical and suggest_reroute
C6_RepeatedBlockerReroutes ==
    /\ ReevaluationReturned
    /\ Len(CalledSession.blocked_steps) = 1
    /\ CalledSession.blocked_steps[1].attempts >= 3
    => /\ Reevaluation.action = "suggest_reroute"
       /\ \E i \in 1..Len(Reevaluation.triggers) :
             /\ Reevaluation.triggers[i].type = "performance"
             /\ Reevaluation.triggers[i].severity \in {"high", "critical"}

\* C7: motivation_level is within [0.1, 1.0] and is
\* max(1.0 - 0.2 * (distinct steps reported blocked), 0.1); it is 1.0 right
\* after initialize_journey
C7_MotivationFollowsDistinctBlockers ==
    /\ \A session_id \in DOMAIN student_states :
          LET motivation_level == student_states[session_id].motivation_level
              distinct == Cardinality(DOMAIN reported[session_id])
          IN  /\ 1 <= motivation_level /\ motivation_level <= 10
              /\ motivation_level = Max(10 - 2 * distinct, 1)
    /\ Answered("initialized") => CalledSession.motivation_level = 10

\* the floor: five distinct steps reported, one of them twice, and the first
\* step completed
C7_Witness ==
    /\ Answered("blocker_recorded")
    /\ CalledOnSession
    /\ CalledSession.motivation_level = 1
    /\ Cardinality(DOMAIN reported[request.session_id]) = 5
    /\ \E step \in DOMAIN reported[request.session_id] :
          reported[request.session_id][step] = 2
    /\ CalledSession.completed_steps = <<1>>

(***************************************************************************)
(* The operations that ask the text generator (src/llm/llm_client.py):     *)
(* FeasibilityEvaluator.evaluate, RerouteAgent.find_alternatives,          *)
(* RoadmapGenerator.generate_roadmap and ProfileAnalyzer.analyze_profile.  *)
(*                                                                         *)
(* What a call, a try block or an operation comes to is a record: with the *)
(* field value when it returns, with the field raised (the exception's     *)
(* class) when an exception leaves it.  A text the generator wrote is      *)
(* [text |-> the string]; a fallback text is the record of the values its  *)
(* template is filled with.  Replies carry no code fence.                  *)
(***************************************************************************)

Raises(attempt) == "raised" \in DOMAIN attempt

\* "except <named>": JSONDecodeError is a subclass of Exception
ExceptionCaught(raised, named) == named = "Exception" \/ raised = named

\* try: attempt / except <named>: return fallback
TryExcept(attempt, named, fallback) ==
    IF Raises(attempt) /\ ExceptionCaught(attempt.raised, named)
        THEN [value |-> fallback]
        ELSE attempt

\* the texts generate returns in the model
Replies ==
    { "{\"steps\": [{\"step_number\": 1, \"duration_weeks\": 3, \"skills_covered\": [\"SQL\"]}]}",
      " {\"programming_languages\": [\"Python\"], \"databases\": [\"SQL\"]} ",
      "Sorry, I cannot help with that." }

\* LLMClient.generate: it returns a text, or raises
\* Exception("Groq API error: ...") for any error of the API call
GenerateOutcomes == {[raised |-> "Exception"]} \cup {[text |-> t] : t \in Replies}

\* the JSON documents among the replies, with the value json.loads gives
JsonDocuments ==
    << [text |-> "{\"steps\": [{\"step_number\": 1, \"duration_weeks\": 3, \"skills_covered\": [\"SQL\"]}]}",
        value |-> [steps |-> << [step_number |-> 1, duration_weeks |-> 3,
                                 skills_covered |-> <<"SQL">>] >>]],
       [text |-> "{\"programming_languages\": [\"Python\"], \"databases\": [\"SQL\"]}",
        value |-> [programming_languages |-> <<"Python">>, databases |-> <<"SQL">>]] >>

\* json.loads: blanks around the document are skipped
json_loads(text) ==
    IF \E d \in 1..Len(JsonDocuments) : JsonDocuments[d].text = strip(text)
        THEN [value |-> JsonDocuments[CHOOSE d \in 1..Len(JsonDocuments) :
                                         JsonDocuments[d].text = strip(text)].value]
        ELSE [raised |-> "JSONDecodeError"]

\* the try block of a call site that parses the reply as JSON
generate_and_parse(outcome) ==
    IF Raises(outcome) THEN outcome ELSE json_loads(strip(outcome.text))

\* the try block of a call site that returns the reply's text
generate_and_strip(outcome) ==
    IF Raises(outcome) THEN outcome ELSE [value |-> [text |-> strip(outcome.text)]]

\* ---- FeasibilityEvaluator ----
\* the template of the except branch of _generate_explanation_llm
fallback_explanation(desired_role, market_analysis) ==
    [fallback |-> "explanation",
     desired_role |-> desired_role,
     skill_match_pct |-> market_analysis.skill_match,
     active_jobs |-> market_analysis.active_jobs]

\* _generate_explanation_llm
generate_explanation_llm(desired_role, market_analysis, outcome) ==
    TryExcept(generate_and_strip(outcome), "Exception",
              fallback_explanation(desired_role, market_analysis))

\* the explanation of evaluate for a decision
explanation_of(verdict, desired_role, market_analysis, outcome) ==
    IF verdict # "FEASIBLE"
        THEN generate_explanation_llm(desired_role, market_analysis, outcome)
        ELSE [value |-> [fallback |-> "great_news", desired_role |-> desired_role]]

\* evaluate with its explanation: what the operation comes to for each result
\* of the rule-based part
explain_evaluation(evaluated, explained) ==
    IF Raises(explained) THEN explained
    ELSE [value |-> [verdict |-> evaluated.verdict,
                     feasibility_score |-> evaluated.feasibility_score,
                     reasons |-> evaluated.reasons,
                     explanation |-> explained.value]]

evaluate_explained(desired_role, market_analysis, student_profile, outcome) ==
    { explain_evaluation(e, explanation_of(e.verdict, desired_role,
                                           market_analysis, outcome))
      : e \in evaluate([skill_match |-> market_analysis.skill_match,
                        demand_score |-> market_analysis.demand_score,
                        entry_barrier |-> market_analysis.entry_barrier,
                        experience_level |-> student_profile.experience_level,
                        learning_capacity |-> student_profile.learning_capacity,
                        missing_skills_count |-> market_analysis.missing_skills_count]) }

\* ---- RerouteAgent ----
\* the template of the except branch of _generate_justification_llm
fallback_justification(original_role, original_analysis, alt) ==
    [fallback |-> "justification",
     alternative_role |-> alt.role,
     original_role |-> original_role,
     alt_jobs |-> alt.market_analysis.total_jobs,
     orig_jobs |-> original_analysis.active_jobs,
     skill_overlap |-> alt.breakdown.skill_overlap,
     stepping_stone |-> alt.breakdown.progression_potential > 500]

\* _generate_justification_llm
generate_justification_llm(original_role, original_analysis, alt, outcome) ==
    TryExcept(generate_and_strip(outcome), "Exception",
              fallback_justification(original_role, original_analysis, alt))

\* the loop of find_alternatives over the top alternatives: outcomes[i] is
\* what generate does in the call made for the i-th of them
justify_alternatives(original_role, original_analysis, top_alternatives, outcomes) ==
    [i \in 1..Len(top_alternatives) |->
        [role |-> top_alternatives[i].role,
         total_score |-> top_alternatives[i].total_score,
         justification |->
            generate_justification_llm(original_role, original_analysis,
                                       top_alternatives[i], outcomes[i])]]

\* find_alternatives with its justifications
find_alternatives_justified(student_profile, failed_role, failed_market_analysis, top_n, catalog, outcomes) ==
    { IF \E i \in 1..Len(r.alternatives) :
            Raises(justify_alternatives(failed_role, failed_market_analysis,
                                        r.alternatives, outcomes)[i].justification)
        THEN [raised |-> "Exception"]
        ELSE [value |->
                [original_role |-> failed_role,
                 alternatives |->
                    [i \in 1..Len(r.alternatives) |->
                        [justify_alternatives(failed_role, failed_market_analysis,
                                              r.alternatives, outcomes)[i]
                            EXCEPT !.justification = @.value]],
                 total_alternatives_evaluated |-> r.total_alternatives_evaluated]]
      : r \in find_alternatives(student_profile, failed_role, top_n, catalog,
                                SomeCareerPaths, StandardTaxonomy) }

\* ---- RoadmapGenerator ----
\* the loop of _generate_fallback_roadmap from the i-th prioritized skill on
RECURSIVE FallbackStepsFrom(_, _, _, _)
FallbackStepsFrom(prioritized_skills, i, week_counter, duration_weeks) ==
    IF i > Min(6, Len(prioritized_skills)) THEN <<>>
    ELSE IF Min(prioritized_skills[i].learning_weeks, duration_weeks - week_counter) <= 0
        THEN <<>>
    ELSE << [step_number |-> i,
             duration_weeks |-> Min(prioritized_skills[i].learning_weeks,
                                    duration_weeks - week_counter),
             skills_covered |-> <<prioritized_skills[i].skill>>] >>
         \o FallbackStepsFrom(prioritized_skills, i + 1,
                week_counter + Min(prioritized_skills[i].learning_weeks,
                                   duration_weeks - week_counter),
                duration_weeks)

\* _generate_fallback_roadmap
generate_fallback_roadmap(prioritized_skills, duration_weeks) ==
    FallbackStepsFrom(prioritized_skills, 1, 0, duration_weeks)

\* parsed.get("steps", [])
steps_of(parsed) == IF "steps" \in DOMAIN parsed THEN parsed.steps ELSE <<>>

\* the try block of _generate_roadmap_llm
parse_roadmap_steps(parsed) ==
    IF Raises(parsed) THEN parsed ELSE [value |-> steps_of(parsed.value)]

\* _generate_roadmap_llm
generate_roadmap_llm(prioritized_skills, duration_weeks, outcome) ==
    TryExcept(parse_roadmap_steps(generate_and_parse(outcome)), "JSONDecodeError",
              generate_fallback_roadmap(prioritized_skills, duration_weeks))

\* _add_portfolio_project: the step it appends (the resources of the steps
\* are left out of the records)
add_portfolio_project(roadmap, prioritized_skills) ==
    Append(roadmap,
           [step_number |-> Len(roadmap) + 1,
            duration_weeks |-> 2,
            skills_covered |->
                [i \in 1..Min(5, Len(prioritized_skills)) |-> prioritized_skills[i].skill]])

\* generate_roadmap from the steps on
roadmap_result(target_role, steps, prioritized_skills) ==
    IF Raises(steps) THEN steps
    ELSE [value |->
            [roadmap |-> add_portfolio_project(steps.value, prioritized_skills),
             total_duration_weeks |->
                SumOver([i \in 1..Len(steps.value) |-> steps.value[i].duration_weeks],
                        1..Len(steps.value)) + 2,
             skills_covered |-> Len(prioritized_skills),
             target_role |-> target_role]]

\* generate_roadmap, for the skills as _prioritize_skills orders them
generate_roadmap(target_role, prioritized_skills, duration_weeks, outcome) ==
    roadmap_result(target_role,
                   generate_roadmap_llm(prioritized_skills, duration_weeks, outcome),
                   prioritized_skills)

\* ---- ProfileAnalyzer ----
\* the structure _extract_skills_llm returns without skills
EmptySkills ==
    [programming_languages |-> <<>>, frameworks |-> <<>>, libraries |-> <<>>,
     tools |-> <<>>, databases |-> <<>>, domains |-> <<>>, soft_skills |-> <<>>]

\* combined_text of _extract_skills_llm, for a call with skills_text only
combined_text(skills_text) ==
    IF skills_text # "" THEN "Skills: " \o skills_text \o "\n\n" ELSE ""

RECURSIVE strip_whitespace(_)
strip_whitespace(s) ==
    IF Len(s) > 0 /\ Head(s) \in {" ", "\n"} THEN strip_whitespace(Tail(s))
    ELSE IF Len(s) > 0 /\ Ch(s, Len(s)) \in {" ", "\n"}
        THEN strip_whitespace(SubSeq(s, 1, Len(s) - 1))
    ELSE s

\* _extract_skills_llm: generate is asked only when there is a text
extract_skills_llm(skills_text, outcome) ==
    IF strip_whitespace(combined_text(skills_text)) = ""
        THEN [value |-> EmptySkills]
        ELSE TryExcept(generate_and_parse(outcome), "JSONDecodeError", EmptySkills)

\* analyze_profile: of the profile, the skills extracted
analyze_profile(skills_text, outcome) ==
    IF Raises(extract_skills_llm(skills_text, outcome))
        THEN extract_skills_llm(skills_text, outcome)
        ELSE [value |-> [raw_extracted_skills |-> extract_skills_llm(skills_text, outcome).value]]

\* ---- inputs of the four operations ----
\* alternatives find_alternatives is asked for
MaxJustified == 2

LlmMarketAnalyses ==
    { [skill_match |-> 100, demand_score |-> 100, entry_barrier |-> 20,
       missing_skills_count |-> 0, active_jobs |-> 4500],
      [skill_match |-> 30, demand_score |-> 60, entry_barrier |-> 60,
       missing_skills_count |-> 4, active_jobs |-> 1200],
      [skill_match |-> 0, demand_score |-> 19, entry_barrier |-> 100,
       missing_skills_count |-> 13, active_jobs |-> 25] }

LlmProfiles ==
    { [technical_skills |-> <<"sql", "Python">>, experience_level |-> "beginner",
       learning_capacity |-> "medium"] }

PrioritizedSkills ==
    { <<>>,
      << [skill |-> "SQL", learning_weeks |-> 4] >>,
      << [skill |-> "SQL", learning_weeks |-> 4],
         [skill |-> "Machine Learning", learning_weeks |-> 12],
         [skill |-> "Excel", learning_weeks |-> 2] >> }

DurationChoices == {4, 12}
SkillsTexts == {"", " ", "Python and SQL"}

LlmCalls ==
    [op : {"evaluate"}, desired_role : {"Data Scientist"},
     market_analysis : LlmMarketAnalyses, student_profile : LlmProfiles,
     generate : GenerateOutcomes]
    \cup [op : {"find_alternatives"}, failed_role : {"Data Scientist"},
          failed_market_analysis : LlmMarketAnalyses, student_profile : LlmProfiles,
          top_n : 1..MaxJustified,
          generate : [1..MaxJustified -> GenerateOutcomes]]
    \cup [op : {"generate_roadmap"}, target_role : {"Data Analyst"},
          prioritized_skills : PrioritizedSkills, duration_weeks : DurationChoices,
          generate : GenerateOutcomes]
    \cup [op : {"analyze_profile"}, skills_text : SkillsTexts,
          generate : GenerateOutcomes]

LlmInit ==
    /\ llm_in \in LlmCalls
    /\ llm_out = NoResult
    /\ CoreIdle /\ ApiIdle /\ QueryIdle /\ DbIdle /\ PoolIdle

\* what the caller of an operation gets
Outcome(result) ==
    IF Raises(result) THEN [status |-> "raised", exception |-> result.raised]
    ELSE [status |-> "returned", value |-> result.value]

Explain ==
    /\ llm_in.op = "evaluate" /\ llm_out = NoResult
    /\ \E r \in evaluate_explained(llm_in.desired_role, llm_in.market_analysis,
                                   llm_in.student_profile, llm_in.generate) :
          llm_out' = Outcome(r)
    /\ UNCHANGED <<llm_in, core_vars, api_vars, query_vars, db_vars, pool_vars>>

Justify ==
    /\ llm_in.op = "find_alternatives" /\ llm_out = NoResult
    /\ \E r \in find_alternatives_justified(llm_in.student_profile, llm_in.failed_role,
                    llm_in.failed_market_analysis, llm_in.top_n,
                    TrackerCatalog, llm_in.generate) :
          llm_out' = Outcome(r)
    /\ UNCHANGED <<llm_in, core_vars, api_vars, query_vars, db_vars, pool_vars>>

GenerateRoadmap ==
    /\ llm_in.op = "generate_roadmap" /\ llm_out = NoResult
    /\ llm_out' = Outcome(generate_roadmap(llm_in.target_role, llm_in.prioritized_skills,
                                           llm_in.duration_weeks, llm_in.generate))
    /\ UNCHANGED <<llm_in, core_vars, api_vars, query_vars, db_vars, pool_vars>>

AnalyzeProfile ==
    /\ llm_in.op = "analyze_profile" /\ llm_out = NoResult
    /\ llm_out' = Outcome(analyze_profile(llm_in.skills_text, llm_in.generate))
    /\ UNCHANGED <<llm_in, core_vars, api_vars, query_vars, db_vars, pool_vars>>

LlmNext == Explain \/ Justify \/ GenerateRoadmap \/ AnalyzeProfile

SpecLlm == LlmInit /\ [][LlmNext]_vars

\* generate fails in a call the operation makes
GenerateFailed ==
    CASE llm_in.op = "find_alternatives" ->
            \E i \in 1..llm_in.top_n : Raises(llm_in.generate[i])
      [] OTHER -> Raises(llm_in.generate)

\* C11: at every call site of the text generator (feasibility explanation,
\* alternative justification, roadmap generation, skill extraction), when
\* generate fails the enclosing operation still returns a result and does not
\* pass the failure on to its caller.
C11_GenerateFailureFallsBack ==
    (llm_out # NoResult /\ GenerateFailed) => llm_out.status = "returned"

\* the two call sites that catch every exception do return their fallback
\* when generate fails
C11_ExplanationAndJustificationFallBack ==
    (llm_out # NoResult /\ GenerateFailed
        /\ llm_in.op \in {"evaluate", "find_alternatives"}) =>
            llm_out.status = "returned"

\* ---------------------------------------------------------------------------
\* Step numbers outside the roadmap

\* the call just made names an existing session and a step_number outside
\* 1..total_steps
StepOutOfRange(op) ==
    /\ request'.op = op
    /\ request'.session_id \in DOMAIN student_states
    /\ \/ request'.step_number < 1
       \/ request'.step_number > student_states[request'.session_id].total_steps

\* the call just made was answered with an error and changed no session
Rejected ==
    /\ "error" \in DOMAIN response'
    /\ student_states' = student_states

\* C12 (record_step_completion): a step_number outside 1..total_steps is
\* answered with an error value and the session state stays as it was
C12_StepCompletionRejectsOutOfRange ==
    [][StepOutOfRange("record_step_completion") => Rejected]_vars

\* C12: record_step_completion and record_blocker both answer a step_number
\* outside 1..total_steps with an error value and leave the session state
\* (completed_steps, blocked_steps, time_spent, current_step,
\* motivation_level) as it was
C12_OutOfRangeStepRejected ==
    [][(StepOutOfRange("record_step_completion") \/ StepOutOfRange("record_blocker"))
            => Rejected]_vars

\* ---------------------------------------------------------------------------
\* Sessions that were never initialized

\* the call just made is an operation on a session_id that no journey was
\* initialized for
CalledUnknownSession ==
    /\ request'.op \in {"record_step_completion", "record_blocker", "reevaluate_path",
                        "get_progress_summary", "get_next_step"}
    /\ request'.session_id \notin DOMAIN student_states

\* C13: record_step_completion, record_blocker, reevaluate_path,
\* get_progress_summary and get_next_step, called with a session_id that was
\* never initialized, return an error value, create no session and leave
\* every existing session as it was
C13_UnknownSessionRejected ==
    [][CalledUnknownSession =>
            /\ "error" \in DOMAIN response'
            /\ DOMAIN student_states' = DOMAIN student_states
            /\ student_states' = student_states]_vars

\* a blocker was reported for an unknown session while another session had
\* completed and blocked steps, and the answer is the error
C13_Witness ==
    /\ request = [op |-> "record_blocker", session_id |-> "s2", step_number |-> 1]
    /\ "error" \in DOMAIN response
    /\ "s2" \notin DOMAIN student_states
    /\ "s1" \in DOMAIN student_states
    /\ student_states["s1"].completed_steps # <<>>
    /\ student_states["s1"].blocked_steps # <<>>

\* ---------------------------------------------------------------------------
\* Roles the market data does not have

\* the last call ran reevaluate_path, which asked find_alternatives for
\* alternatives: the result carries the market analysis handed to it
AlternativesAsked ==
    /\ ReevaluationReturned
    /\ Reevaluation.action = "suggest_reroute"

\* C14 (reevaluate_path): when analyze_role_market has no data for the
\* journey's target role, reevaluate_path does not call find_alternatives
\* with an empty market analysis
C14_NoAlternativesFromEmptyMarketAnalysis ==
    AlternativesAsked => Reevaluation.current_market_analysis # <<>>

(***************************************************************************)
(* CareerNavigationOrchestrator.process_student_query (src/orchestrator.py)*)
(* over the agents above.  A query comes to a record of the calls made to  *)
(* the agents, in order, and of the result: with the field value when the  *)
(* query returns, with the field raised when an exception leaves it.       *)
(***************************************************************************)

\* _estimate_difficulty, in hundredths
estimate_difficulty(skill) ==
    IF \E hard \in {"machine learning", "deep learning", "system design", "algorithms",
                    "data structures", "cloud architecture"} : contains(lower(skill), hard)
        THEN 90
    ELSE IF \E med \in {"python", "java", "react", "node.js", "statistics"} :
                contains(lower(skill), med)
        THEN 60
    ELSE IF \E easy \in {"git", "excel", "html", "css", "sql basics"} :
                contains(lower(skill), easy)
        THEN 30
    ELSE 50

\* list.sort(key = priority_score, reverse = True): stable
RECURSIVE SortByPriority(_)
SortByPriority(list) ==
    IF list = <<>> THEN <<>>
    ELSE LET sorted == SortByPriority(SubSeq(list, 1, Len(list) - 1))
             x == list[Len(list)]
             k == Cardinality({i \in 1..Len(sorted) :
                                 sorted[i].priority_score >= x.priority_score})
         IN  SubSeq(sorted, 1, k) \o <<x>> \o SubSeq(sorted, k + 1, Len(sorted))

\* _prioritize_skills for must_have lists of skill names: a missing skill
\* found in must_have has frequency 0.5, another 0.3, each 4 learning weeks;
\* priority_score in thousandths
prioritize_skills(missing_skills, must_have) ==
    SortByPriority(
        [i \in 1..Len(missing_skills) |->
            [skill |-> missing_skills[i],
             learning_weeks |-> 4,
             priority_score |->
                (IF InSeq(missing_skills[i], must_have) THEN 50 ELSE 30) * 7
                    + (100 - estimate_difficulty(missing_skills[i])) * 3]])

\* a call of the roadmap generator made by the orchestrator
roadmap_for(target_role, market_analysis, duration_weeks, outcome) ==
    generate_roadmap(target_role,
                     prioritize_skills(market_analysis.missing_skills,
                                       market_analysis.required_skills),
                     duration_weeks, outcome)

Called(fn, role) == [fn |-> fn, role |-> role]

\* the end of _handle_feasible_path, from the roadmap on
feasible_result(desired_role, feasibility, direct) ==
    IF Raises(direct) THEN direct
    ELSE [value |-> [status |-> "success", verdict |-> "FEASIBLE",
                     path_type |-> "direct", target_role |-> desired_role,
                     feasibility |-> feasibility,
                     roadmap |-> direct.value]]

\* _handle_feasible_path
handle_feasible_path(desired_role, market_analysis, feasibility, duration_weeks, generate, calls) ==
    [calls |-> Append(calls, Called("generate_roadmap", desired_role)),
     result |-> feasible_result(desired_role, feasibility,
                    roadmap_for(desired_role, market_analysis, duration_weeks,
                                generate.roadmap))]

\* the calls made for the roadmap of an alternative
roadmap_calls(calls, role) ==
    calls \o <<Called("analyze_role_market", role), Called("generate_roadmap", role)>>

\* the roadmap of an alternative: the orchestrator asks the market agent for
\* the alternative's analysis and then the roadmap generator
alternative_roadmap(role, student_skills, duration_weeks, generate) ==
    roadmap_for(role,
                analyze_role_market(TrackerCatalog, StandardTaxonomy, role, student_skills),
                duration_weeks, generate.roadmap)

\* the roadmaps gathered, with one more
roadmap_added(done, role, alt_roadmap) ==
    [calls |-> roadmap_calls(done.calls, role),
     result |-> IF Raises(alt_roadmap) THEN alt_roadmap
                ELSE [value |-> Append(done.result.value, alt_roadmap.value)]]

\* the roadmaps of the first n alternatives, from the i-th on: the first
\* exception ends the loop
RECURSIVE alternative_roadmaps(_, _, _, _, _, _, _)
alternative_roadmaps(alternatives, i, n, student_skills, duration_weeks, generate, done) ==
    IF i > Min(n, Len(alternatives)) \/ Raises(done.result) THEN done
    ELSE alternative_roadmaps(alternatives, i + 1, n, student_skills,
                duration_weeks, generate,
                roadmap_added(done, alternatives[i].role,
                    alternative_roadmap(alternatives[i].role, student_skills,
                                        duration_weeks, generate)))

\* the answer of a path with alternatives, from their roadmaps on
alternatives_result(alternatives, roadmaps, answer) ==
    [calls |-> roadmaps.calls,
     result |->
        IF Raises(roadmaps.result) THEN roadmaps.result
        ELSE [value |-> answer @@
                [alternatives |-> [i \in 1..Len(alternatives) |-> alternatives[i].role],
                 alternative_roadmaps |-> roadmaps.result.value]]]

\* the end of _handle_challenging_path and of _handle_reroute_path: the
\* alternatives found, with the roadmaps of the first n of them
with_alternative_roadmaps(found, n, student_skills, duration_weeks, generate, calls, answer) ==
    IF Raises(found) THEN [calls |-> calls, result |-> found]
    ELSE alternatives_result(found.value.alternatives,
            alternative_roadmaps(found.value.alternatives, 1, n, student_skills,
                                 duration_weeks, generate,
                                 [calls |-> calls, result |-> [value |-> <<>>]]),
            answer)

\* find_alternatives as the orchestrator calls it
alternatives_for(desired_role, student_profile, market_analysis, top_n, generate) ==
    find_alternatives_justified(student_profile, desired_role, market_analysis, top_n,
                                TrackerCatalog, [i \in 1..top_n |-> generate.justification])

\* _handle_challenging_path from the direct roadmap on
challenging_after_direct(desired_role, student_profile, market_analysis, feasibility, duration_weeks, generate, made, direct) ==
    IF Raises(direct) THEN {[calls |-> made, result |-> direct]}
    ELSE { with_alternative_roadmaps(found, 1, student_profile.technical_skills,
                duration_weeks \div 2, generate,
                Append(made, Called("find_alternatives", desired_role)),
                [status |-> "success", verdict |-> "CHALLENGING",
                 path_type |-> "choice", target_role |-> desired_role,
                 feasibility |-> feasibility, roadmap |-> direct.value])
           : found \in alternatives_for(desired_role, student_profile,
                                        market_analysis, 2, generate) }

\* _handle_challenging_path
handle_challenging_path(desired_role, student_profile, market_analysis, feasibility, duration_weeks, generate, calls) ==
    challenging_after_direct(desired_role, student_profile, market_analysis,
        feasibility, duration_weeks, generate,
        Append(calls, Called("generate_roadmap", desired_role)),
        roadmap_for(desired_role, market_analysis, duration_weeks, generate.roadmap))

\* _handle_reroute_path
handle_reroute_path(desired_role, student_profile, market_analysis, feasibility, duration_weeks, generate, calls) ==
    { with_alternative_roadmaps(found, 2, student_profile.technical_skills,
            duration_weeks, generate,
            Append(calls, Called("find_alternatives", desired_role)),
            [status |-> "success", verdict |-> "NOT_FEASIBLE",
             path_type |-> "reroute", original_role |-> desired_role,
             feasibility |-> feasibility])
      : found \in alternatives_for(desired_role, student_profile, market_analysis,
                                   3, generate) }

\* process_student_query from the decision branch on
decision_branch(desired_role, student_profile, market_analysis, evaluated, duration_weeks, generate, calls) ==
    IF Raises(evaluated) THEN {[calls |-> calls, result |-> evaluated]}
    ELSE IF evaluated.value.verdict = "FEASIBLE" THEN
        { handle_feasible_path(desired_role, market_analysis, evaluated.value,
                               duration_weeks, generate, calls) }
    ELSE IF evaluated.value.verdict = "CHALLENGING" THEN
        handle_challenging_path(desired_role, student_profile, market_analysis,
                                evaluated.value, duration_weeks, generate, calls)
    ELSE
        handle_reroute_path(desired_role, student_profile, market_analysis,
                            evaluated.value, duration_weeks, generate, calls)

\* process_student_query from the market analysis on
after_market_analysis(desired_role, student_profile, market_analysis, duration_weeks, generate, calls) ==
    IF market_analysis.status = "error" THEN
        { [calls |-> calls,
           result |-> [value |-> [status |-> "error",
                                  available_roles |-> market_analysis.available_roles]]] }
    ELSE
        UNION { decision_branch(desired_role, student_profile, market_analysis,
                                evaluated, duration_weeks, generate,
                                Append(calls, Called("evaluate", desired_role)))
                : evaluated \in evaluate_explained(desired_role, market_analysis,
                                    student_profile, generate.explanation) }

\* process_student_query: what it can come to, for what analyze_profile
\* gives (a profile, or the exception that leaves it)
process_student_query(desired_role, profile_result, duration_weeks, generate) ==
    IF Raises(profile_result) THEN
        { [calls |-> <<Called("analyze_profile", desired_role)>>,
           result |-> profile_result] }
    ELSE
        after_market_analysis(desired_role, profile_result.value,
            analyze_role_market(TrackerCatalog, StandardTaxonomy, desired_role,
                                profile_result.value.technical_skills),
            duration_weeks, generate,
            << Called("analyze_profile", desired_role),
               Called("analyze_role_market", desired_role) >>)

\* ---- inputs of process_student_query ----
QueryRoles == {"Data Analyst", "data scientist", "BI Developer", "Chef", "Pilot"}

QueryProfiles ==
    [technical_skills : {<<>>, <<"sql", "Excel">>, <<"Python">>},
     experience_level : {"beginner", "advanced"},
     learning_capacity : {"medium", "low"}]

ProfileResults == {[raised |-> "Exception"]} \cup {[value |-> p] : p \in QueryProfiles}

\* what generate does at each of the three call sites below the query
QueryOutcomes ==
    { [raised |-> "Exception"],
      [text |-> "Sorry, I cannot help with that."],
      [text |-> "{\"steps\": [{\"step_number\": 1, \"duration_weeks\": 3, \"skills_covered\": [\"SQL\"]}]}"] }

Queries ==
    [desired_role : QueryRoles,
     profile_result : ProfileResults,
     duration_weeks : {12},
     generate : [explanation : QueryOutcomes, justification : QueryOutcomes,
                 roadmap : QueryOutcomes]]

QueryInit ==
    /\ pq_in \in Queries
    /\ pq_out = NoResult
    /\ CoreIdle /\ ApiIdle /\ LlmIdle /\ DbIdle /\ PoolIdle

ProcessStudentQuery ==
    /\ pq_out = NoResult
    /\ \E r \in process_student_query(pq_in.desired_role, pq_in.profile_result,
                                      pq_in.duration_weeks, pq_in.generate) :
          pq_out' = [calls |-> r.calls, result |-> Outcome(r.result)]
    /\ UNCHANGED <<pq_in, core_vars, api_vars, llm_vars, db_vars, pool_vars>>

QueryNext == ProcessStudentQuery

SpecQuery == QueryInit /\ [][QueryNext]_vars

\* the query asked for a role the market data does not have
RoleNotFound ==
    /\ pq_out # NoResult
    /\ ~Raises(pq_in.profile_result)
    /\ get_role_data(TrackerCatalog, pq_in.desired_role) = 0

\* C14 (process_student_query): for a role the market data does not have the
\* query returns status error with the names of the available roles, and
\* calls neither evaluate nor find_alternatives nor generate_roadmap
C14_QueryStopsAtUnknownRole ==
    RoleNotFound =>
        /\ pq_out.result.status = "returned"
        /\ pq_out.result.value.status = "error"
        /\ pq_out.result.value.available_roles
              = [i \in 1..Len(TrackerCatalog) |-> TrackerCatalog[i].name]
        /\ \A i \in 1..Len(pq_out.calls) :
              pq_out.calls[i].fn \notin {"evaluate", "find_alternatives", "generate_roadmap"}

\* such a query was answered
C14_QueryWitness ==
    /\ RoleNotFound
    /\ pq_in.desired_role = "Chef"
    /\ pq_out.calls = << Called("analyze_profile", "Chef"),
                         Called("analyze_role_market", "Chef") >>

\* ---------------------------------------------------------------------------
\* reevaluate_path on every session

\* C15: on every initialized session, a journey with an empty roadmap and a
\* state in which no trigger fires included, reevaluate_path returns a result
\* (continue or suggest_reroute) and never raises
C15_ReevaluatePathReturns ==
    (CalledOnSession /\ request.op = "reevaluate_path") =>
        /\ "raised" \notin DOMAIN response
        /\ "action" \in DOMAIN response
        /\ response.action \in {"continue", "suggest_reroute"}

\* on a journey with at least one step it does
C15_ReturnsOnNonEmptyRoadmap ==
    (CalledOnSession /\ request.op = "reevaluate_path" /\ CalledSession.total_steps > 0) =>
        /\ "action" \in DOMAIN response
        /\ response.action \in {"continue", "suggest_reroute"}

(***************************************************************************)
(* DatabaseManager.record_blocker (src/database/db_manager.py) called by   *)
(* requests that run at the same time, each in a transaction of its own on *)
(* a connection of the pool.  The database is PostgreSQL at its default    *)
(* isolation level, READ COMMITTED: a statement sees the rows committed    *)
(* before it began and the changes of its own transaction; an UPDATE waits *)
(* for the transaction that holds the row's lock and then works on the     *)
(* committed row.  The table definitions are not part of the sources: the  *)
(* model covers a blockers table with and without a unique index on the    *)
(* unresolved (session_id, step_number).                                   *)
(*                                                                         *)
(* A row of blockers is [step, attempts, by, locked_by, new_attempts]: by  *)
(* is the transaction that inserted it and has not committed (0 once       *)
(* committed), locked_by the transaction that updated it and has not       *)
(* committed (0 when none), new_attempts the value that update wrote, and  *)
(* initial_attempts the attempts it had before the requests began (0 for a *)
(* row they inserted; a history field).                                    *)
(***************************************************************************)

\* requests at the same time, and the steps they report
NumWriters == 2
MaxDbStep == 2
\* attempts of the blocker that the journey may have from the start
MaxDbAttempts == 2

Writers == 1..NumWriters

\* the unresolved rows of a step that a transaction sees
visible_blockers(p, step_number) ==
    {id \in DOMAIN blockers :
        blockers[id].step = step_number /\ blockers[id].by \in {0, p}}

\* the unresolved rows of a step that are committed
committed_blockers(step_number) ==
    {id \in DOMAIN blockers : blockers[id].step = step_number /\ blockers[id].by = 0}

DbInit ==
    /\ blockers_unique \in BOOLEAN
    /\ blockers \in {<<>>} \cup
          { << [step |-> 1, attempts |-> a, by |-> 0, locked_by |-> 0,
                new_attempts |-> a, initial_attempts |-> a] >> : a \in 1..MaxDbAttempts }
    /\ journey = [motivation_level |-> 10, locked_by |-> 0, new_motivation_level |-> 10]
    /\ step_locks = [s \in 1..MaxDbStep |-> 0]
    /\ tx \in [Writers -> [pc : {"select"}, step_number : 1..MaxDbStep, existing : {0}]]
    /\ CoreIdle /\ ApiIdle /\ LlmIdle /\ QueryIdle /\ PoolIdle

\* SELECT id, attempts FROM blockers WHERE ... AND resolved = FALSE; fetchone()
SelectExisting(p) ==
    /\ tx[p].pc = "select"
    /\ IF visible_blockers(p, tx[p].step_number) = {} THEN
          tx' = [tx EXCEPT ![p].pc = "write", ![p].existing = 0]
       ELSE
          \E id \in visible_blockers(p, tx[p].step_number) :
              tx' = [tx EXCEPT ![p].pc = "write", ![p].existing = id]
    /\ UNCHANGED <<blockers, journey, step_locks, blockers_unique, core_vars, api_vars,
                   llm_vars, query_vars, pool_vars>>

\* if existing: UPDATE blockers SET attempts = attempts + 1 WHERE id = ...
UpdateBlocker(p) ==
    /\ tx[p].pc = "write" /\ tx[p].existing # 0
    /\ blockers[tx[p].existing].locked_by \in {0, p}
    /\ blockers' = [blockers EXCEPT ![tx[p].existing] =
                        [@ EXCEPT !.locked_by = p,
                                  !.new_attempts = blockers[tx[p].existing].attempts + 1]]
    /\ tx' = [tx EXCEPT ![p].pc = "step_progress"]
    /\ UNCHANGED <<journey, step_locks, blockers_unique, core_vars, api_vars, llm_vars, query_vars,
                   pool_vars>>

\* else: INSERT INTO blockers ...; with the unique index the insert waits for
\* a transaction that inserted the same key and has not committed, and fails
\* when the key is committed: the except branch rolls back and raises
InsertBlocker(p) ==
    /\ tx[p].pc = "write" /\ tx[p].existing = 0
    /\ blockers_unique =>
          \A id \in DOMAIN blockers :
              blockers[id].step = tx[p].step_number => blockers[id].by \in {0, p}
    /\ IF blockers_unique /\ committed_blockers(tx[p].step_number) # {} THEN
          /\ tx' = [tx EXCEPT ![p].pc = "failed"]
          /\ UNCHANGED blockers
       ELSE
          /\ blockers' = Append(blockers,
                [step |-> tx[p].step_number, attempts |-> 1, by |-> p,
                 locked_by |-> 0, new_attempts |-> 1, initial_attempts |-> 0])
          /\ tx' = [tx EXCEPT ![p].pc = "step_progress"]
    /\ UNCHANGED <<journey, step_locks, blockers_unique, core_vars, api_vars, llm_vars, query_vars,
                   pool_vars>>

\* UPDATE step_progress SET status = 'blocked' WHERE ... step_number = ...
UpdateStepProgress(p) ==
    /\ tx[p].pc = "step_progress"
    /\ step_locks[tx[p].step_number] \in {0, p}
    /\ step_locks' = [step_locks EXCEPT ![tx[p].step_number] = p]
    /\ tx' = [tx EXCEPT ![p].pc = "journey"]
    /\ UNCHANGED <<blockers, journey, blockers_unique, core_vars, api_vars, llm_vars, query_vars,
                   pool_vars>>

\* UPDATE journeys SET motivation_level = GREATEST(motivation_level - 0.2, 0.1)
\* and the row of the activity log
UpdateJourney(p) ==
    /\ tx[p].pc = "journey"
    /\ journey.locked_by \in {0, p}
    /\ journey' = [journey EXCEPT !.locked_by = p,
                                  !.new_motivation_level =
                                        Max(journey.motivation_level - 2, 1)]
    /\ tx' = [tx EXCEPT ![p].pc = "commit"]
    /\ UNCHANGED <<blockers, step_locks, blockers_unique, core_vars, api_vars, llm_vars, query_vars,
                   pool_vars>>

\* a row after the commit of p
committed_row(row, p) ==
    [step |-> row.step,
     attempts |-> IF row.locked_by = p THEN row.new_attempts ELSE row.attempts,
     by |-> IF row.by = p THEN 0 ELSE row.by,
     locked_by |-> IF row.locked_by = p THEN 0 ELSE row.locked_by,
     new_attempts |-> row.new_attempts,
     initial_attempts |-> row.initial_attempts]

\* conn.commit()
Commit(p) ==
    /\ tx[p].pc = "commit"
    /\ blockers' = [id \in DOMAIN blockers |-> committed_row(blockers[id], p)]
    /\ journey' = [motivation_level |-> journey.new_motivation_level, locked_by |-> 0,
                   new_motivation_level |-> journey.new_motivation_level]
    /\ step_locks' = [s \in DOMAIN step_locks |->
                        IF step_locks[s] = p THEN 0 ELSE step_locks[s]]
    /\ tx' = [tx EXCEPT ![p].pc = "done"]
    /\ UNCHANGED <<blockers_unique, core_vars, api_vars, llm_vars, query_vars,
                   pool_vars>>

DbNext ==
    \E p \in Writers :
        \/ SelectExisting(p)
        \/ UpdateBlocker(p)
        \/ InsertBlocker(p)
        \/ UpdateStepProgress(p)
        \/ UpdateJourney(p)
        \/ Commit(p)

SpecDb == DbInit /\ [][DbNext]_vars

\* every request has returned or raised
AllFinished == \A p \in Writers : tx[p].pc \in {"done", "failed"}

\* the requests that reported the step, and the step's unresolved rows
ReportsOf(step_number) == {p \in Writers : tx[p].step_number = step_number}

RowsOf(step_number) == {id \in DOMAIN blockers : blockers[id].step = step_number}

\* the step had no blocker before the requests began
FreshStep(step_number) ==
    \A id \in RowsOf(step_number) : blockers[id].initial_attempts = 0

\* C16: after two record_blocker operations for the same session and the same
\* step that interleave, exactly one unresolved blocker entry exists for the
\* step and its attempts is 2, as after the two in either serial order
C16_TwoReportsOneEntry ==
    \A step_number \in 1..MaxDbStep :
        (AllFinished /\ Cardinality(ReportsOf(step_number)) = 2 /\ FreshStep(step_number)) =>
            /\ Cardinality(RowsOf(step_number)) = 1
            /\ \A id \in RowsOf(step_number) : blockers[id].attempts = 2
            /\ \A p \in ReportsOf(step_number) : tx[p].pc = "done"

\* when the step's blocker exists before the requests begin, every report
\* adds one to its attempts and no entry is added; and when every request
\* reports such a step, each returns and lowers motivation_level by 0.2
C16_ReportsOfExistingBlockerCounted ==
    AllFinished =>
        /\ \A step_number \in 1..MaxDbStep :
              ~FreshStep(step_number) =>
                  /\ Cardinality(RowsOf(step_number)) = 1
                  /\ \A id \in RowsOf(step_number) :
                        blockers[id].attempts
                            = blockers[id].initial_attempts
                                + Cardinality(ReportsOf(step_number))
        /\ (\A p \in Writers : ~FreshStep(tx[p].step_number)) =>
              /\ \A p \in Writers : tx[p].pc = "done"
              /\ journey.motivation_level = Max(10 - 2 * NumWriters, 1)

(***************************************************************************)
(* The re-evaluation of the standalone app (src/app_standalone.py):        *)
(* find_alternatives scores and ranks the alternatives, then each          *)
(* alternative is analysed (its market analysis and its roadmap), one      *)
(* after the other in trigger_reevaluation, by the threads of a            *)
(* ThreadPoolExecutor in trigger_reevaluation_with_analysis.               *)
(***************************************************************************)

\* ThreadPoolExecutor(max_workers=3) and find_alternatives(..., top_n=3)
max_workers == 3
top_n_alternatives == 3

PoolInputs ==
    [mode : {"sequential", "concurrent"},
     student_profile : Profiles,
     current_target : TargetRoles,
     generate : [1..top_n_alternatives -> QueryOutcomes]]

PoolInit ==
    /\ pool_in \in PoolInputs
    /\ pool_found = NoResult /\ pool_alts = <<>> /\ pool_task = <<>>
    /\ pool_out = NoResult
    /\ CoreIdle /\ ApiIdle /\ LlmIdle /\ QueryIdle /\ DbIdle

\* the ranking of a list of alternatives: each one's role, score and
\* breakdown, at its position
Ranking(alternatives) ==
    [i \in 1..Len(alternatives) |->
        [role |-> alternatives[i].role,
         total_score |-> alternatives[i].total_score,
         breakdown |-> alternatives[i].breakdown]]

\* orchestrator.reroute_agent.find_alternatives(..., top_n=3)
ScoreAlternatives ==
    /\ pool_found = NoResult
    /\ \E r \in find_alternatives(pool_in.student_profile, pool_in.current_target,
                                  top_n_alternatives, TrackerCatalog, SomeCareerPaths,
                                  StandardTaxonomy) :
          /\ pool_found' = r.alternatives
          /\ pool_alts' = r.alternatives
          /\ pool_task' = [i \in 1..Len(r.alternatives) |-> [pc |-> "queued"]]
    /\ UNCHANGED <<pool_in, pool_out, core_vars, api_vars, llm_vars, query_vars, db_vars>>

\* alt_market of the analysis of an alternative
alt_market_of(role) ==
    analyze_role_market(TrackerCatalog, StandardTaxonomy, role,
                        pool_in.student_profile.technical_skills)

\* alt_roadmap of the analysis of the i-th alternative
alt_roadmap_of(i, role) == roadmap_for(role, alt_market_of(role), 12, pool_in.generate[i])

\* the analysis of the i-th alternative may begin: in the loop after the
\* ones before it are done, in the pool when a thread is free and the ones
\* before it have begun
MayBegin(i) ==
    IF pool_in.mode = "sequential" THEN \A j \in 1..(i - 1) : pool_task[j].pc = "done"
    ELSE /\ \A j \in 1..(i - 1) : pool_task[j].pc # "queued"
         /\ Cardinality({j \in DOMAIN pool_task :
                pool_task[j].pc \in {"analysed", "roadmap_written"}}) < max_workers

\* the task after the two calls of the analysis: an exception ends the loop
\* and the re-evaluation, and in the pool is reported as a warning
analysed_task(i, role) ==
    IF Raises(alt_roadmap_of(i, role))
        THEN [pc |-> IF pool_in.mode = "sequential" THEN "raised" ELSE "warned"]
        ELSE [pc |-> "analysed", alt_market |-> alt_market_of(role),
              alt_roadmap |-> alt_roadmap_of(i, role).value]

\* analyze_role_market and generate_roadmap for the i-th alternative
AnalyzeAlternative(i) ==
    /\ pool_out = NoResult
    /\ i \in DOMAIN pool_task /\ pool_task[i].pc = "queued"
    /\ MayBegin(i)
    /\ pool_task' = [pool_task EXCEPT ![i] = analysed_task(i, pool_alts[i].role)]
    /\ pool_out' = IF analysed_task(i, pool_alts[i].role).pc = "raised"
                      THEN [status |-> "failed"] ELSE pool_out
    /\ UNCHANGED <<pool_in, pool_found, pool_alts, core_vars, api_vars, llm_vars, query_vars,
                   db_vars>>

\* the alternative that the analysis of the i-th alternative writes to
analysed_alt_first(i) == 1

analysed_alt(i) == i

\* alt["roadmap"] = alt_roadmap
WriteRoadmap(i) ==
    /\ i \in DOMAIN pool_task /\ pool_task[i].pc = "analysed"
    /\ pool_alts' = [pool_alts EXCEPT ![analysed_alt(i)] =
                        [roadmap |-> pool_task[i].alt_roadmap] @@ @]
    /\ pool_task' = [pool_task EXCEPT ![i].pc = "roadmap_written"]
    /\ UNCHANGED <<pool_in, pool_found, pool_out, core_vars, api_vars, llm_vars, query_vars,
                   db_vars>>

\* alt["market_data"] = alt_market
WriteMarketData(i) ==
    /\ i \in DOMAIN pool_task /\ pool_task[i].pc = "roadmap_written"
    /\ pool_alts' = [pool_alts EXCEPT ![analysed_alt(i)] =
                        [market_data |-> pool_task[i].alt_market] @@ @]
    /\ pool_task' = [pool_task EXCEPT ![i] = [pc |-> "done"]]
    /\ UNCHANGED <<pool_in, pool_found, pool_out, core_vars, api_vars, llm_vars, query_vars,
                   db_vars>>

\* st.session_state.reevaluation_data = {... "alternatives": alternatives ...}
SaveReevaluation ==
    /\ pool_found # NoResult /\ pool_out = NoResult
    /\ \A i \in DOMAIN pool_task : pool_task[i].pc \in {"done", "warned"}
    /\ pool_out' = [status |-> "saved", alternatives |-> pool_alts]
    /\ UNCHANGED <<pool_in, pool_found, pool_alts, pool_task, core_vars, api_vars, llm_vars,
                   query_vars, db_vars>>

PoolNext ==
    \/ ScoreAlternatives
    \/ \E i \in 1..top_n_alternatives :
          \/ AnalyzeAlternative(i)
          \/ WriteRoadmap(i)
          \/ WriteMarketData(i)
    \/ SaveReevaluation

SpecPool == PoolInit /\ [][PoolNext]_vars

\* the i-th alternative after its analysis alone
analysed_alone(i) ==
    IF Raises(alt_roadmap_of(i, pool_found[i].role)) THEN pool_found[i]
    ELSE [roadmap |-> alt_roadmap_of(i, pool_found[i].role).value,
          market_data |-> alt_market_of(pool_found[i].role)] @@ pool_found[i]

\* C17: the ranking of the alternatives (each one's total_score, breakdown
\* and position) is the one find_alternatives produced, during and after the
\* analysis, in the loop and in the pool in every interleaving; and the
\* alternatives saved are each what its own analysis alone makes of it, so no
\* analysis changed another alternative's result
C17_RankingUnchangedByAnalysis ==
    /\ pool_found # NoResult => Ranking(pool_alts) = Ranking(pool_found)
    /\ (pool_out # NoResult /\ pool_out.status = "saved") =>
          /\ Ranking(pool_out.alternatives) = Ranking(pool_found)
          /\ pool_out.alternatives = [i \in 1..Len(pool_found) |-> analysed_alone(i)]

\* in the pool, the second alternative's analysis is done while the first
\* one's has not written yet
C17_Witness ==
    /\ pool_in.mode = "concurrent"
    /\ Len(pool_alts) >= 2
    /\ pool_task[1].pc = "analysed"
    /\ pool_task[2].pc = "done"
    /\ "roadmap" \in DOMAIN pool_alts[2] /\ "roadmap" \notin DOMAIN pool_alts[1]

\* the re-evaluation data of the pool were saved with every analysis done
C17_SavedWitness ==
    /\ pool_in.mode = "concurrent"
    /\ pool_out # NoResult /\ pool_out.status = "saved"
    /\ Len(pool_out.alternatives) >= 2
    /\ \A i \in DOMAIN pool_task : pool_task[i].pc = "done"

\* ---------------------------------------------------------------------------
\* The feasibility score as a convex combination

\* a factor score, in hundredths, lies in [0,1]
InUnitHundredths(x) == 0 <= x /\ x <= 100

\* C18: feasibility_score is 0.4*skill_score + 0.3*market_score
\* + 0.2*barrier_score + 0.1*time_score (returned rounded to two decimals),
\* each of the four factor scores lies in [0,1] for all inputs, unknown
\* experience_level and learning_capacity values included, and so
\* feasibility_score lies in [0,1]
C18_ScoreIsConvexCombination ==
    fe_out.status = "evaluated" =>
        /\ fe_out.feasibility_score
              \in round2(4 * fe_out.factor_scores.skill_match
                         + 3 * fe_out.factor_scores.market_demand
                         + 2 * fe_out.factor_scores.entry_barrier
                         + 1 * fe_out.factor_scores.time_to_competency)
        /\ fe_out.factor_scores.skill_match = calculate_skill_score(fe_in.skill_match)
        /\ fe_out.factor_scores.market_demand = calculate_market_score(fe_in.demand_score)
        /\ InUnitHundredths(fe_out.factor_scores.skill_match)
        /\ InUnitHundredths(fe_out.factor_scores.market_demand)
        /\ InUnitHundredths(fe_out.factor_scores.entry_barrier)
        /\ InUnitHundredths(fe_out.factor_scores.time_to_competency)
        /\ InUnitHundredths(fe_out.feasibility_score)

\* an evaluation of a profile whose experience_level and learning_capacity
\* the evaluator does not know, with the lowest factor scores
C18_Witness ==
    /\ fe_out.status = "evaluated"
    /\ fe_in.experience_level \notin {"beginner", "intermediate", "advanced"}
    /\ fe_in.learning_capacity \notin {"high", "medium", "low"}
    /\ fe_out.factor_scores = [skill_match |-> 20, market_demand |-> 25,
                               entry_barrier |-> 20, time_to_competency |-> 20]
    /\ fe_out.feasibility_score \in {21, 22}

\* ---- _calculate_demand_score on its own ----
\* job counts around the steps of the base score and around its cap
DemandJobCounts == {0, 1, 83, 84, 2500, 4999, 5000, 5001, 10000}
DemandTrends == {"growing", "stable", "declining", "unknown", "booming"}
\* growth rates in percent, around the thresholds 0, 10 and 20
DemandGrowthRates == {-5, -1, 0, 5, 9, 10, 19, 20, 25}

DemandInit ==
    /\ mi_in \in [job_count : DemandJobCounts, trend : DemandTrends,
                  growth_rate : DemandGrowthRates]
    /\ mi_out = NoResult
    /\ FeasIdle /\ RerouteIdle /\ ScoreIdle /\ TrackerIdle /\ AppIdle

CalculateDemandScore ==
    /\ mi_out = NoResult
    /\ mi_out' = [demand_score |->
            calculate_demand_score(mi_in.job_count, mi_in.trend, mi_in.growth_rate)]
    /\ UNCHANGED <<mi_in, feas_vars, reroute_vars, score_vars, tracker_vars, app_vars>>

DemandNext == CalculateDemandScore

SpecDemand == DemandInit /\ [][DemandNext]_vars

trend_bonus(trend) ==
    IF trend = "growing" THEN 25
    ELSE IF trend = "stable" THEN 15
    ELSE IF trend = "declining" THEN 5
    ELSE 10

growth_bonus(growth_rate) ==
    IF growth_rate >= 20 THEN 15
    ELSE IF growth_rate >= 10 THEN 10
    ELSE IF growth_rate >= 0 THEN 5
    ELSE 0

\* the integer k with k <= min(jobs/5000*60, 60) + bonus < k + 1, both sides
\* multiplied by 5000
FloorOfDemand(job_count, bonus) ==
    LET x == Min(job_count * 60, 60 * 5000) + bonus * 5000
    IN  CHOOSE k \in 0..100 : k * 5000 <= x /\ x < (k + 1) * 5000

\* C19: for every job count >= 0, trend and growth rate, demand_score is
\* min(floor(min(jobs/5000*60, 60) + trend_bonus + growth_bonus), 100), with
\* trend_bonus growing 25, stable 15, declining 5, otherwise 10 and growth_bonus
\* 15/10/5/0 at the thresholds 20/10/0, and lies in [0,100]; demand_score(5000,
\* growing, 25) is 100 and demand_score(0, unknown, -5) is 10.
C19_DemandScoreFormula ==
    mi_out # NoResult =>
        /\ mi_out.demand_score = Min(FloorOfDemand(mi_in.job_count,
                            trend_bonus(mi_in.trend) + growth_bonus(mi_in.growth_rate)), 100)
        /\ mi_out.demand_score \in 0..100
        /\ (mi_in = [job_count |-> 5000, trend |-> "growing", growth_rate |-> 25])
               => mi_out.demand_score = 100
        /\ (mi_in = [job_count |-> 0, trend |-> "unknown", growth_rate |-> -5])
               => mi_out.demand_score = 10

\* the score of 5000 jobs, growing, 25 percent has been computed: 60 + 25 + 15
C19_Witness ==
    /\ mi_in = [job_count |-> 5000, trend |-> "growing", growth_rate |-> 25]
    /\ mi_out = [demand_score |-> 100]

\* ---- the five conditions of a re-evaluation, on a session state ----
BlockedStepNumbers(state) ==
    {state.blocked_steps[i].step : i \in 1..Len(state.blocked_steps)}

\* 40 hours for every week of the completed steps of the roadmap
ExpectedHours(state) ==
    LET done == Elems(state.completed_steps) \cap (1..Len(state.roadmap))
    IN  SumOver([i \in done |-> 40 * state.roadmap[i].duration_weeks], done)

RecordedHours(state) == SumOver(state.time_spent, DOMAIN state.time_spent)

TwoBlockedSteps(state) == Cardinality(BlockedStepNumbers(state)) >= 2

RepeatedBlocker(state) ==
    \E i \in 1..Len(state.blocked_steps) : state.blocked_steps[i].attempts >= 3

AtCheckpoint(state) ==
    LET count == Cardinality(Elems(state.completed_steps))
    IN  count > 0 /\ count % 3 = 0

OverTime(state) ==
    ExpectedHours(state) > 0 /\ 2 * RecordedHours(state) > 3 * ExpectedHours(state)

LowMotivation(state) == state.motivation_level < 5

\* C20: for every session state, _should_reevaluate returns true if and only
\* if (a) at least 2 distinct steps are blocked, or (b) some blocked step has
\* attempts >= 3, or (c) the number of completed steps is a positive multiple
\* of 3, or (d) the recorded time_spent exceeds 1.5 times the expected hours
\* (40 * duration_weeks summed over the completed steps, when that sum is > 0),
\* or (e) motivation_level < 0.5; blockers on two distinct steps make it true.
C20_ShouldReevaluateIffAnyCondition ==
    (CalledOnSession /\ "should_reevaluate" \in DOMAIN response) =>
        /\ response.should_reevaluate =
              (\/ TwoBlockedSteps(CalledSession)
               \/ RepeatedBlocker(CalledSession)
               \/ AtCheckpoint(CalledSession)
               \/ OverTime(CalledSession)
               \/ LowMotivation(CalledSession))
        /\ TwoBlockedSteps(CalledSession) => response.should_reevaluate

\* a report that left blockers on two distinct steps was answered with
\* should_reevaluate
C20_Witness ==
    /\ CalledOnSession
    /\ Answered("blocker_recorded")
    /\ response.should_reevaluate
    /\ Cardinality(BlockedStepNumbers(CalledSession)) = 2
    /\ ~RepeatedBlocker(CalledSession)
    /\ ~AtCheckpoint(CalledSession)
    /\ ~OverTime(CalledSession)
    /\ ~LowMotivation(CalledSession)

\* C24: the response of record_step_completion and of record_blocker has a
\* reevaluation result if and only if the should_reevaluate flag of that
\* response is true
C24_ReevaluationIffFlag ==
    (CalledOnSession /\ "should_reevaluate" \in DOMAIN response) =>
        (("reevaluation" \in DOMAIN response) <=> response.should_reevaluate)

\* the half of C24 that record_step_completion keeps, and the direction that
\* record_blocker keeps: a reevaluation result comes with a true flag
C24_CompletionReevaluatesIffFlag ==
    (CalledOnSession /\ "should_reevaluate" \in DOMAIN response) =>
        /\ Answered("completed") =>
              (("reevaluation" \in DOMAIN response) <=> response.should_reevaluate)
        /\ ("reevaluation" \in DOMAIN response) => response.should_reevaluate

\* C25: for a journey of N >= 1 steps, get_next_step before any completion
\* returns step 1 with step_number 1; it returns in_progress only with a step
\* whose number is in 1..N and is not completed, and it returns completed
\* only when all N steps are in completed_steps
C25_NextStepIsOpenStep ==
    (CalledOnSession /\ request.op = "get_next_step" /\ CalledSession.total_steps >= 1) =>
        LET N == CalledSession.total_steps
            done == Elems(CalledSession.completed_steps)
        IN  /\ done = {} =>
                  /\ Answered("in_progress")
                  /\ response.step_number = 1
                  /\ response.next_step = CalledSession.roadmap[1]
            /\ Answered("in_progress") =>
                  /\ response.step_number \in 1..N
                  /\ response.step_number \notin done
            /\ Answered("completed") => done = 1..N

\* C26: completed_steps has no duplicates and only numbers in 1..total_steps,
\* so the completed count is at most total_steps, progress_percentage (in
\* tenths) is in [0,100] and remaining_steps >= 0
C26_CompletedStepsWithinRoadmap ==
    /\ \A s \in DOMAIN student_states :
          LET state == student_states[s] IN
          /\ \A i, j \in 1..Len(state.completed_steps) :
                state.completed_steps[i] = state.completed_steps[j] => i = j
          /\ Elems(state.completed_steps) \subseteq 1..state.total_steps
          /\ Len(state.completed_steps) <= state.total_steps
    /\ Answered("completed") =>
          /\ response.progress_percentage \in 0..1000
          /\ response.remaining_steps >= 0
          /\ response.completed_steps + response.remaining_steps
                = CalledSession.total_steps

\* C26: completing a completed step returns already_completed and changes no
\* state
C26_CompletionIsIdempotent ==
    [][(/\ request'.op = "record_step_completion"
        /\ request'.session_id \in DOMAIN student_states
        /\ request'.step_number \in Elems(student_states[request'.session_id].completed_steps))
       => (/\ response' = [status |-> "already_completed", step |-> request'.step_number]
           /\ student_states' = student_states)]_vars

\* C26: after any sequence of operations completed_steps has no duplicates
\* and stays within 1..total_steps, with the percentage in [0,100] and
\* remaining_steps >= 0, and completing a completed step answers
\* already_completed and changes no state
C26_Completed ==
    /\ []C26_CompletedStepsWithinRoadmap
    /\ C26_CompletionIsIdempotent

\* a step of a journey with all its steps completed was completed again
C26_Witness ==
    /\ CalledOnSession
    /\ Answered("already_completed")
    /\ Len(CalledSession.completed_steps) = CalledSession.total_steps
    /\ CalledSession.total_steps = MaxSteps

\* the operation just made is not the start of a new journey for session s
SameJourney(s) ==
    ~(request'.op = "initialize_journey" /\ request'.session_id = s)

\* every blocker entry of the state before is in the state after, at its
\* position and with at least its attempts
BlockersKept(before, after) ==
    /\ Len(after.blocked_steps) >= Len(before.blocked_steps)
    /\ \A i \in 1..Len(before.blocked_steps) :
          /\ after.blocked_steps[i].step = before.blocked_steps[i].step
          /\ after.blocked_steps[i].attempts >= before.blocked_steps[i].attempts

\* C27: a blocked-step entry is never removed, also when its step is
\* completed: over the operations of a journey the number of blocked steps
\* does not decrease, motivation_level does not increase, and once at least 2
\* steps are blocked should_reevaluate is true after every later operation
C27_BlockersNeverRemoved ==
    [][\A s \in DOMAIN student_states : SameJourney(s) =>
          /\ s \in DOMAIN student_states'
          /\ BlockersKept(student_states[s], student_states'[s])
          /\ student_states'[s].motivation_level <= student_states[s].motivation_level
          /\ Len(student_states[s].blocked_steps) >= 2 =>
                /\ should_reevaluate(student_states'[s])
                /\ (request'.session_id = s /\ "should_reevaluate" \in DOMAIN response')
                      => response'.should_reevaluate]_vars

\* a step reported blocked was completed while two steps were blocked, and
\* its entry is in blocked_steps
C27_Witness ==
    /\ CalledOnSession
    /\ Answered("completed")
    /\ response.should_reevaluate
    /\ request.step_number \in BlockedStepNumbers(CalledSession)
    /\ Len(CalledSession.blocked_steps) >= 2
    /\ CalledSession.motivation_level < 10

\* the fields of a session that a re-evaluation has no business with
ProgressOf(state) ==
    <<state.completed_steps, state.blocked_steps, state.current_step,
      state.motivation_level>>

\* the last step was a call of reevaluate_path on an existing session
ReevaluatedNow ==
    /\ request'.op = "reevaluate_path"
    /\ request'.session_id \in DOMAIN student_states

\* C28: after any number of reevaluate_path calls the learned list of the
\* stored profile has each skill covered by the completed steps exactly once,
\* a re-evaluation repeated with no completion in between leaves the stored
\* profile unchanged, and reevaluate_path never changes completed_steps,
\* blocked_steps, current_step or motivation_level
C28_LearnedSkillsStoredOnce ==
    [][ReevaluatedNow =>
          LET s == request'.session_id
              after == student_states'[s]
          IN  /\ ProgressOf(after) = ProgressOf(student_states[s])
              /\ \A skill \in get_skills_learned(after) :
                    CopiesIn(skill, after.student_profile.technical_skills.learned) = 1
              /\ (request.op = "reevaluate_path" /\ request.session_id = s) =>
                    after.student_profile = student_states[s].student_profile]_vars

\* the part of C28 that the code keeps: reevaluate_path changes none of
\* completed_steps, blocked_steps, current_step and motivation_level
C28_ReevaluationKeepsProgress ==
    [][ReevaluatedNow =>
          ProgressOf(student_states'[request'.session_id])
              = ProgressOf(student_states[request'.session_id])]_vars

\* the catalog position of a role name
CatalogIndex(catalog, role_name) ==
    CHOOSE i \in 1..Len(catalog) : catalog[i].name = role_name

\* the roles other than failed_role that the result does not return
LeftOut(catalog, failed_role, alternatives) ==
    {i \in OtherRoles(catalog, failed_role) :
        \A a \in 1..Len(alternatives) : alternatives[a].role # catalog[i].name}

\* C22: the list find_alternatives returns is sorted by total_score in
\* non-increasing order, candidates of equal total_score keep the catalog's
\* order, its length is min(top_n, number of catalog roles other than
\* failed_role), and no role left out has a total_score greater than a
\* returned one
C22_AlternativesRanked ==
    rr_out.status = "found" =>
        LET alts == rr_out.reroute_recommendations.alternatives
            catalog == rr_in.catalog
        IN  /\ Len(alts) = Min(rr_in.top_n,
                               Cardinality(OtherRoles(catalog, rr_in.failed_role)))
            /\ \A i, j \in 1..Len(alts) : i < j =>
                  /\ alts[i].total_score >= alts[j].total_score
                  /\ alts[i].total_score = alts[j].total_score =>
                        CatalogIndex(catalog, alts[i].role)
                            < CatalogIndex(catalog, alts[j].role)
            /\ \A c \in LeftOut(catalog, rr_in.failed_role, alts) :
                  \E b \in calculate_role_score(catalog[c],
                               extract_student_skills(rr_in.student_profile),
                               rr_in.failed_role, rr_in.student_profile, catalog,
                               rr_in.career_paths, StandardTaxonomy) :
                      \A a \in 1..Len(alts) : b.total_score <= alts[a].total_score

\* two returned alternatives have the same total_score, and a role other
\* than the failed one is left out
C22_Witness ==
    /\ rr_out.status = "found"
    /\ LeftOut(rr_in.catalog, rr_in.failed_role,
               rr_out.reroute_recommendations.alternatives) # {}
    /\ LET alts == rr_out.reroute_recommendations.alternatives IN
       \E i, j \in 1..Len(alts) :
          /\ i < j
          /\ alts[i].total_score = alts[j].total_score

\* the catalog role that _get_role_data resolves for the requested name, 0
\* for None
ResolvedRole == get_role_data(rr_in.catalog, rr_in.failed_role)

\* C23: the catalog role that analyze_role_market resolves for a requested
\* role name (by exact, case-insensitive or substring match) is never among
\* the alternatives that find_alternatives returns for that requested name
C23_ResolvedRoleNotOffered ==
    (rr_out.status = "found" /\ ResolvedRole # 0) =>
        \A i \in 1..Len(rr_out.reroute_recommendations.alternatives) :
            rr_out.reroute_recommendations.alternatives[i].role
                # rr_in.catalog[ResolvedRole].name

\* the part of C23 that the code keeps: a role resolved by an exact or a
\* case-insensitive match is not offered
C23_RoleMatchedByNameNotOffered ==
    (/\ rr_out.status = "found"
     /\ ResolvedRole # 0
     /\ lower(rr_in.catalog[ResolvedRole].name) = lower(rr_in.failed_role)) =>
        \A i \in 1..Len(rr_out.reroute_recommendations.alternatives) :
            rr_out.reroute_recommendations.alternatives[i].role
                # rr_in.catalog[ResolvedRole].name

\* the four factors in the order of their reasons, each with the score returned
FactorsInReasonOrder ==
    << [type |-> "skill_gap", score |-> fe_out.factor_scores.skill_match],
       [type |-> "low_market_demand", score |-> fe_out.factor_scores.market_demand],
       [type |-> "high_entry_barrier", score |-> fe_out.factor_scores.entry_barrier],
       [type |-> "long_learning_path",
        score |-> fe_out.factor_scores.time_to_competency] >>

ScoresBelowHalf(factor) == factor.score < 50

\* C30: every evaluate result with verdict NOT_FEASIBLE carries at least one
\* reason: feasibility_score < 0.45 implies that a factor score is below 0.5,
\* and reasons lists exactly the factors scoring below 0.5, in the order
\* skill_gap, low_market_demand, high_entry_barrier, long_learning_path
C30_NotFeasibleHasReasons ==
    fe_out.status = "evaluated" =>
        LET low == SelectSeq(FactorsInReasonOrder, ScoresBelowHalf) IN
        /\ fe_out.verdict = "NOT_FEASIBLE" => Len(fe_out.reasons) >= 1
        /\ fe_out.feasibility_score < 45 => low # <<>>
        /\ [i \in 1..Len(fe_out.reasons) |-> fe_out.reasons[i].type]
              = [i \in 1..Len(low) |-> low[i].type]

\* a NOT_FEASIBLE result whose reasons are the skill gap and the learning
\* path, with the market and the barrier at 0.5 or more
C30_Witness ==
    /\ fe_out.status = "evaluated"
    /\ fe_out.verdict = "NOT_FEASIBLE"
    /\ Len(fe_out.reasons) = 2
    /\ fe_out.reasons[1].type = "skill_gap"
    /\ fe_out.reasons[2].type = "long_learning_path"
    /\ fe_out.factor_scores.time_to_competency = 40

(***************************************************************************)
(* The API layer (src/api/main.py) on the persisted journey                *)
(* (src/database/db_manager.py).  One journey is followed: api_db holds    *)
(* its row of journeys (motivation_level in tenths), its rows of           *)
(* step_progress (step number -> status), blockers, reevaluations and      *)
(* reroutes.  Every request runs alone, each database call in its own      *)
(* committed transaction.  The target role is one the catalog has, so the  *)
(* market analysis and the roadmap generation of a request return.         *)
(***************************************************************************)

\* steps of a roadmap, and reports of blockers made in a journey
MaxApiSteps == 6
MaxApiReports == 3
MaxApiBlockStep == 2
MaxApiReroutes == 1
ApiRoles == {"Data Analyst"}

\* the rows create_journey and create_reroute write to step_progress
fresh_step_progress(total_steps) == [i \in 1..total_steps |-> "not_started"]

\* get_active_blockers: the unresolved rows
get_active_blockers(db) ==
    SelectSeq(db.blockers, LAMBDA row : ~row.resolved)

\* the fourth test of _should_reevaluate of the API
periodic_check_due(completed_count, recent_reevals) ==
    /\ completed_count > 0 /\ completed_count % 3 = 0
    /\ (recent_reevals = <<>> \/ completed_count > Len(recent_reevals) * 3)

\* _should_reevaluate of the API: the triggers, in the order they are appended
api_should_reevaluate(db) ==
    LET active == get_active_blockers(db)
        repeated == SelectSeq(active, LAMBDA row : row.attempts >= 3)
    IN  (IF Len(active) >= 2
            THEN << [type |-> "performance", severity |-> "high"] >> ELSE <<>>)
        \o [i \in 1..Len(repeated) |-> [type |-> "performance", severity |-> "critical"]]
        \o (IF db.journey.motivation_level < 5
            THEN << [type |-> "slow_progress", severity |-> "medium"] >> ELSE <<>>)
        \o (IF periodic_check_due(Len(db.journey.completed_steps), db.reevaluations)
            THEN << [type |-> "periodic_check", severity |-> "low"] >> ELSE <<>>)

\* _perform_reevaluation: the action it takes and the row create_reevaluation
\* inserts
perform_reevaluation(db, triggers) ==
    LET high_severity ==
            \E i \in 1..Len(triggers) : triggers[i].severity \in {"high", "critical"}
        action_taken == IF high_severity THEN "suggest_reroute" ELSE "continue"
    IN  [db |-> [db EXCEPT !.reevaluations =
                    Append(@, [trigger_type |-> triggers[1].type,
                               trigger_severity |-> triggers[1].severity,
                               action_taken |-> action_taken,
                               student_decision |-> "none"])],
         result |-> [triggers |-> triggers, action |-> action_taken]]

\* DatabaseManager.record_step_completion
db_record_step_completion(db, step_number) ==
    [db EXCEPT
        !.step_progress = [i \in DOMAIN @ |-> IF i = step_number THEN "completed" ELSE @[i]],
        !.journey.current_step = step_number + 1,
        !.journey.completed_steps = Append(@, step_number)]

\* DatabaseManager.record_blocker, run alone
db_record_blocker(db, step_number) ==
    LET existing == {i \in 1..Len(db.blockers) :
                        db.blockers[i].step_number = step_number /\ ~db.blockers[i].resolved}
        upserted ==
            IF existing # {}
                THEN LET e == CHOOSE i \in existing : \A j \in existing : i <= j
                     IN  [db.blockers EXCEPT ![e].attempts = @ + 1]
                ELSE Append(db.blockers,
                            [step_number |-> step_number, attempts |-> 1, resolved |-> FALSE])
    IN  [db EXCEPT
            !.blockers = upserted,
            !.step_progress = [i \in DOMAIN @ |-> IF i = step_number THEN "blocked" ELSE @[i]],
            !.journey.motivation_level = Max(@ - 2, 1)]

\* DatabaseManager.create_reroute
create_reroute(db, to_role, new_total_steps) ==
    [db EXCEPT
        !.reroutes = Append(@, [from_role |-> db.journey.target_role, to_role |-> to_role]),
        !.journey = [target_role |-> to_role, total_steps |-> new_total_steps,
                     current_step |-> 0, completed_steps |-> <<>>,
                     motivation_level |-> 10],
        !.step_progress = fresh_step_progress(new_total_steps)]

\* update_reevaluation_decision
update_reevaluation_decision(db, reevaluation_id, student_decision) ==
    [db EXCEPT !.reevaluations =
        [i \in DOMAIN @ |-> IF i = reevaluation_id
                               THEN [@[i] EXCEPT !.student_decision = student_decision]
                               ELSE @[i]]]

\* the part of update_progress from "Check if re-evaluation needed" on
progress_checked(db) ==
    LET triggers == api_should_reevaluate(db) IN
    IF triggers # <<>>
        THEN [db |-> perform_reevaluation(db, triggers).db,
              response |-> [success |-> TRUE, should_reevaluate |-> TRUE,
                            reevaluation |-> perform_reevaluation(db, triggers).result]]
        ELSE [db |-> db,
              response |-> [success |-> TRUE, should_reevaluate |-> FALSE]]

\* the journey create_journey stores for a roadmap of MaxApiSteps steps
ApiInit ==
    /\ api_db = [journey |-> [target_role |-> "Data Scientist",
                              total_steps |-> MaxApiSteps,
                              current_step |-> 0,
                              completed_steps |-> <<>>,
                              motivation_level |-> 10],
                 step_progress |-> fresh_step_progress(MaxApiSteps),
                 blockers |-> <<>>,
                 reevaluations |-> <<>>,
                 reroutes |-> <<>>]
    /\ api_call = NoInput
    /\ CoreIdle /\ LlmIdle /\ QueryIdle /\ DbIdle /\ PoolIdle

\* update_progress with status "in_progress": DatabaseManager has no
\* update_step_status, the AttributeError becomes the HTTP error 500
ProgressInProgress ==
    \E step_number \in {1} :
        /\ api_call' = [op |-> "update_progress", status |-> "in_progress",
                        step_number |-> step_number,
                        response |-> [raised |-> "HTTPException", status_code |-> 500]]
        /\ UNCHANGED <<api_db, core_vars, llm_vars, query_vars, db_vars, pool_vars>>

\* update_progress with status "completed", for the step after the last one
\* completed or for step 1 once more
ProgressCompleted ==
    \E step_number \in {Len(api_db.journey.completed_steps) + 1, 1} :
        /\ Len(api_db.journey.completed_steps) < MaxApiSteps
        /\ LET checked == progress_checked(db_record_step_completion(api_db, step_number))
           IN  /\ api_db' = checked.db
               /\ api_call' = [op |-> "update_progress", status |-> "completed",
                               step_number |-> step_number,
                               response |-> checked.response]
        /\ UNCHANGED <<core_vars, llm_vars, query_vars, db_vars, pool_vars>>

\* the reports of blockers that the rows of blockers count
ApiReports ==
    SumOver([i \in 1..Len(api_db.blockers) |-> api_db.blockers[i].attempts],
            1..Len(api_db.blockers))

\* update_progress with status "blocked" and a blocker_reason
ProgressBlocked ==
    \E step_number \in 1..MaxApiBlockStep :
        /\ ApiReports < MaxApiReports
        /\ LET checked == progress_checked(db_record_blocker(api_db, step_number))
           IN  /\ api_db' = checked.db
               /\ api_call' = [op |-> "update_progress", status |-> "blocked",
                               step_number |-> step_number,
                               response |-> checked.response]
        /\ UNCHANGED <<core_vars, llm_vars, query_vars, db_vars, pool_vars>>

\* accept_reroute for the re-evaluation recorded last
AcceptReroute ==
    \E chosen_role \in ApiRoles, reevaluation_id \in {Len(api_db.reevaluations)} :
        /\ api_db.reevaluations # <<>>
        /\ Len(api_db.reroutes) < MaxApiReroutes
        /\ api_db' = update_reevaluation_decision(
                        create_reroute(api_db, chosen_role, MaxApiSteps),
                        reevaluation_id, "switch_role")
        /\ api_call' = [op |-> "accept_reroute", chosen_role |-> chosen_role,
                        response |-> [success |-> TRUE, new_target_role |-> chosen_role]]
        /\ UNCHANGED <<core_vars, llm_vars, query_vars, db_vars, pool_vars>>

ApiNext ==
    \/ ProgressInProgress
    \/ ProgressCompleted
    \/ ProgressBlocked
    \/ AcceptReroute

SpecApi == ApiInit /\ [][ApiNext]_vars

\* the last request was an update_progress that was answered, and its
\* response names the periodic_check trigger
PeriodicCheckRaised(call) ==
    /\ "should_reevaluate" \in DOMAIN call.response
    /\ call.response.should_reevaluate
    /\ \E i \in 1..Len(call.response.reevaluation.triggers) :
          call.response.reevaluation.triggers[i].type = "periodic_check"

CompletedCount(db) == Len(db.journey.completed_steps)

\* the step just made is an update_progress that recorded something
ProgressUpdated == api_call'.op = "update_progress" /\ api_call'.status # "in_progress"

\* C21: the periodic_check trigger of the API's trigger check is raised
\* exactly once for each completed-step count 3, 6, 9, ...: on the progress
\* update that first reaches the multiple, not again on later updates at the
\* same count, and also when re-evaluations were recorded earlier for other
\* triggers (blockers, low motivation)
C21_PeriodicCheckOncePerMultiple ==
    [][ProgressUpdated =>
          /\ (CompletedCount(api_db') > CompletedCount(api_db)
              /\ CompletedCount(api_db') % 3 = 0) => PeriodicCheckRaised(api_call')
          /\ CompletedCount(api_db') = CompletedCount(api_db)
                => ~PeriodicCheckRaised(api_call')
          /\ CompletedCount(api_db') % 3 # 0 => ~PeriodicCheckRaised(api_call')]_vars

\* the part of C21 that the code keeps: the trigger is raised at multiples of
\* 3 only, never on an update that leaves the count as it was, and always
\* when no re-evaluation was recorded before
C21_PeriodicCheckNotRepeated ==
    [][ProgressUpdated =>
          /\ (CompletedCount(api_db') > CompletedCount(api_db)
              /\ CompletedCount(api_db') % 3 = 0
              /\ api_db.reevaluations = <<>>) => PeriodicCheckRaised(api_call')
          /\ CompletedCount(api_db') = CompletedCount(api_db)
                => ~PeriodicCheckRaised(api_call')
          /\ CompletedCount(api_db') % 3 # 0 => ~PeriodicCheckRaised(api_call')]_vars

\* the last request was an accept_reroute
RerouteAccepted == "op" \in DOMAIN api_call /\ api_call.op = "accept_reroute"

\* C29: right after a reroute is accepted the persisted journey is fresh for
\* the new roadmap: completed_steps is empty, current_step is 0,
\* motivation_level is 1.0, every step is not_started and no unresolved
\* blocker of the old roadmap remains, so that the next trigger check with no
\* new event reports no trigger
C29_RerouteLeavesFreshJourney ==
    RerouteAccepted =>
        /\ api_db.journey.completed_steps = <<>>
        /\ api_db.journey.current_step = 0
        /\ api_db.journey.motivation_level = 10
        /\ \A i \in DOMAIN api_db.step_progress : api_db.step_progress[i] = "not_started"
        /\ DOMAIN api_db.step_progress = 1..api_db.journey.total_steps
        /\ get_active_blockers(api_db) = <<>>
        /\ api_should_reevaluate(api_db) = <<>>

\* the part of C29 that the code keeps: the journey's row and its
\* step_progress rows are fresh
C29_RerouteResetsProgress ==
    RerouteAccepted =>
        /\ api_db.journey.completed_steps = <<>>
        /\ api_db.journey.current_step = 0
        /\ api_db.journey.motivation_level = 10
        /\ \A i \in DOMAIN api_db.step_progress : api_db.step_progress[i] = "not_started"
        /\ DOMAIN api_db.step_progress = 1..api_db.journey.total_steps

====
